---- MODULE Spec2Model ----
(***************************************************************************)
(* dtrader-crypto-2.0: the order-book synchronizer (OrderBookManager), the *)
(* broadcast hub (BroadcastManager, fed by Logger) and the exchange        *)
(* session (DTrader), modelled as state machines of their handlers.        *)
(*                                                                         *)
(* Every handler of the single-threaded reactor is one action; an `await`  *)
(* inside an async method splits it into the steps before and after the    *)
(* suspension, the pending continuation being kept in `tasks`.             *)
(***************************************************************************)
EXTENDS Integers, Sequences, FiniteSets, TLC

VARIABLES
    syncState,      \* OrderBookManager.syncState
    orderBook,      \* OrderBookManager.orderBook (exists = FALSE models null)
    updateCache,    \* OrderBookManager.updateCache
    tasks,          \* pending continuations of initialize() / resync(), by kind
    last,           \* history: the handler that ran last and what it did
    dropped,        \* history: a gap dropped the book and CACHING_UPDATES has
                    \* not been entered since
    delivered,      \* history: the lastUpdateId of the diff a gap-free stream
                    \* delivered last, 0 before its first diff
    isRunning,      \* BroadcastManager.isRunning
    clients,        \* BroadcastManager.clients: id -> subscriptions, socket state
    messageBuffer,  \* BroadcastManager.messageBuffer
    hubLast,        \* history: the hub handler that ran last and what it sent
    published,      \* history: the data events published to connected clients
    received,       \* history: the data events each registered client was sent
    state,          \* DTrader.state
    ws,             \* DTrader.ws: the id of a socket, 0 for null
    sockets,        \* every upstream WebSocket created so far
    pingTimer,      \* DTrader.pingTimer holds an active interval
    pongTimeout,    \* DTrader.pongTimeout: null, a pending timer or a fired one
    stalePongTimers,\* pending pong timers DTrader.pongTimeout no longer holds
    reconnectTimers,\* pending 5 s reconnect timers
    startPc,        \* the await at which start() is suspended
    subscribed,     \* history: channels subscribed to since start() was called
    alive,          \* the Node process has not died of an uncaught exception
    sessLast,       \* history: the session step that ran last
    currentCandle,  \* DTrader.currentCandle (exists = FALSE models null)
    candleHistory,  \* DTrader.candleHistory
    candleLast,     \* history: what updateCandle did last
    onCandleCalls,  \* history: the candles the last step passed to strategy.onCandle
    currentRules,   \* TVPStrategy.currentRules
    indicatorState, \* TVPStrategy.indicatorState
    tickCount,      \* TVPStrategy.tickCount
    signal,         \* history: the type of the signal onCandle returned last
    obUpdateCounter,   \* DTrader.obUpdateCounter, counted modulo pressureEvery
    previousOBPressure \* DTrader.previousOBPressure

obVars == <<syncState, orderBook, updateCache, tasks, last, dropped, delivered>>

hubVars == <<isRunning, clients, messageBuffer, hubLast, published, received>>

sessCore == <<state, ws, sockets, pingTimer, pongTimeout, stalePongTimers,
              reconnectTimers, startPc, subscribed, alive>>

candleVars == <<currentCandle, candleHistory, candleLast, onCandleCalls>>

strategyVars == <<currentRules, indicatorState, tickCount, signal>>

pressureVars == <<obUpdateCounter, previousOBPressure>>

sessVars == <<sessCore, sessLast, candleVars, strategyVars, pressureVars>>

vars == <<obVars, hubVars, sessVars>>

-----------------------------------------------------------------------------
(* Bounds of the model *)

\* update ids (U, u, snapshot id) range over 1..MaxId
MaxId == 3
\* OrderBookManager.maxCacheSize, which the source sets to 1000, scaled down:
\* the overflow guard of processUpdate compares updateCache.length with it
maxCacheSize == 1
\* config.depth of the OrderBookManager (DTrader passes orderBookDepth || 10)
depth == 2
\* most resync() calls whose continuations are pending at the same time
MaxResyncTasks == 1
\* downstream clients are 1..MaxClients
MaxClients == 2
\* most channels a client is subscribed to at a time
MaxSubscriptions == 2
\* most upstream sockets the session creates
MaxSockets == 3
\* most pending pong timers whose handle has been overwritten
MaxStalePongTimers == 1
\* most reconnect timers pending at the same time
MaxReconnectTimers == 2
\* BroadcastManager.maxBufferSize, which the source sets to 100, scaled down
maxBufferSize == 2
\* DTrader.candleInterval, 60000 ms in the source, scaled down
candleInterval == 2
\* DTrader.maxCandleHistory, 200 in the source, scaled down
maxCandleHistory == 2
\* latest timestamp of a tick
MaxTime == 2

-----------------------------------------------------------------------------
(* Data *)

NOT_INITIALIZED == "NOT_INITIALIZED"
CACHING_UPDATES == "CACHING_UPDATES"
SYNCHRONIZED    == "SYNCHRONIZED"
SyncState == {NOT_INITIALIZED, CACHING_UPDATES, SYNCHRONIZED}

Ids == 1..MaxId

Level(p, a) == [price |-> p, amount |-> a]

\* orderBook = null
NoBook == [exists |-> FALSE, lastUpdateId |-> 0, bids |-> <<>>, asks |-> <<>>]

Book(id, bids, asks) ==
    [exists |-> TRUE, lastUpdateId |-> id, bids |-> bids, asks |-> asks]

\* an OrderBookUpdate built by processUpdate from the frame's U, u, b, a
Update(U, u, bids, asks) ==
    [firstUpdateId |-> U, lastUpdateId |-> u, bids |-> bids, asks |-> asks]

-----------------------------------------------------------------------------
(* OrderBookManager: pure parts *)

\* FindIndex when no price ever compares equal
FindIndexNever(levels, price) == 0

\* levels.findIndex(l => l.price === price), 0 for -1
FindIndex(levels, price) ==
    IF \E i \in 1..Len(levels) : levels[i].price = price
    THEN CHOOSE i \in 1..Len(levels) :
            /\ levels[i].price = price
            /\ \A j \in 1..(i - 1) : levels[j].price /= price
    ELSE 0

\* levels.splice(index, 1)
Splice(levels, index) ==
    [i \in 1..(Len(levels) - 1) |->
        IF i < index THEN levels[i] ELSE levels[i + 1]]

\* the comparator of levels.sort: TRUE when a must come before b
Before(a, b, order) ==
    IF order = "desc" THEN a.price > b.price ELSE a.price < b.price

\* one step of a stable sort: x is put after every element that is not after it
InsertSorted(sorted, x, order) ==
    LET k == Cardinality({i \in 1..Len(sorted) : ~Before(x, sorted[i], order)})
        \* sorted is ordered, so the elements not after x form its prefix
    IN  [i \in 1..(Len(sorted) + 1) |->
            IF i <= k THEN sorted[i]
            ELSE IF i = k + 1 THEN x
            ELSE sorted[i - 1]]

RECURSIVE SortLevels(_, _)
\* levels.sort(comparator): stable, by price
SortLevels(levels, order) ==
    IF levels = <<>> THEN <<>>
    ELSE InsertSorted(SortLevels(SubSeq(levels, 1, Len(levels) - 1), order),
                      levels[Len(levels)], order)

\* Truncate without the assignment to levels.length
TruncateNever(levels) == levels

\* levels.length = depth when longer
Truncate(levels) ==
    IF Len(levels) > depth THEN SubSeq(levels, 1, depth) ELSE levels

\* UpdateLevel without its levels.sort
UpdateLevelUnsorted(levels, newLevel, order) ==
    LET index == FindIndex(levels, newLevel.price) IN
    IF newLevel.amount = 0
    THEN IF index /= 0 THEN Splice(levels, index) ELSE levels
    ELSE Truncate(
            IF index /= 0
            THEN [levels EXCEPT ![index].amount = newLevel.amount]
            ELSE Append(levels, newLevel))

\* updateLevel(levels, newLevel, order): the array it leaves in levels
UpdateLevel(levels, newLevel, order) ==
    LET index == FindIndex(levels, newLevel.price) IN
    IF newLevel.amount = 0
    THEN IF index /= 0 THEN Splice(levels, index) ELSE levels
    ELSE Truncate(
            IF index /= 0
            THEN [levels EXCEPT ![index].amount = newLevel.amount]
            ELSE SortLevels(Append(levels, newLevel), order))

RECURSIVE UpdateLevels(_, _, _)
\* for (const l of news) this.updateLevel(levels, l, order)
UpdateLevels(levels, news, order) ==
    IF news = <<>> THEN levels
    ELSE UpdateLevels(UpdateLevel(levels, Head(news), order), Tail(news), order)

ApplyUpdate(book, update) ==
    IF ~book.exists THEN book
    ELSE [book EXCEPT
            !.bids = UpdateLevels(book.bids, update.bids, "desc"),
            !.asks = UpdateLevels(book.asks, update.asks, "asc"),
            !.lastUpdateId = update.lastUpdateId]

\* InBridge without its test of firstUpdateId
InBridgeAnyLater(update, baseId) ==
    update.lastUpdateId >= baseId + 1

\* the condition of the replay loop of initialize()
InBridge(update, baseId) ==
    /\ update.firstUpdateId <= baseId + 1
    /\ update.lastUpdateId >= baseId + 1

RECURSIVE ReplayCache(_, _, _)
\* the loop of initialize() over updateCache. acc = [book, applied, ids,
\* skipped]: the book so far, the updates applied so far, the lastUpdateId the
\* book had after the snapshot and after each applied update, and how many
\* cached updates were passed over
ReplayCache(acc, cache, baseId) ==
    IF cache = <<>> THEN acc
    ELSE LET update == Head(cache) IN
         IF InBridge(update, baseId)
         THEN LET b == ApplyUpdate(acc.book, update) IN
              ReplayCache([acc EXCEPT !.book = b,
                                      !.applied = Append(@, update),
                                      !.ids = Append(@, b.lastUpdateId)],
                          Tail(cache), baseId)
         ELSE ReplayCache([acc EXCEPT !.skipped = @ + 1], Tail(cache), baseId)

\* the book initialize() builds from the snapshot
SnapshotBook(snapshot) == Book(snapshot.id, snapshot.bids, snapshot.asks)

-----------------------------------------------------------------------------
(* OrderBookManager: inputs *)

\* the b / a arrays a frame of spot.order_book_update may carry
Sides ==
    { [bids |-> <<Level(2, 1)>>, asks |-> <<>>],
      [bids |-> <<>>,            asks |-> <<Level(3, 0)>>] }

\* the updates the exchange may deliver: a range U..u of ids with its levels
Updates ==
    { Update(r[1], r[2], s.bids, s.asks) :
        r \in {q \in Ids \X Ids : q[1] <= q[2]}, s \in Sides }

\* what GET /spot/order_book may answer: sorted sides of at most depth levels
Snapshots ==
    { [id |-> i, bids |-> <<Level(2, 2), Level(1, 1)>>, asks |-> <<Level(3, 1)>>] :
        i \in Ids }

NoUpdate == Update(0, 0, <<>>, <<>>)

-----------------------------------------------------------------------------
(* OrderBookManager: handlers *)

\* kinds of pending continuation. "call.init" is the initialize() that the
\* owner of the manager awaits, from its sleep(1000) to the answer of
\* getOrderBook; "resync.wait" is a resync() in its sleep(1000) and
\* "resync.init" the initialize() it then calls. Nobody awaits a resync()
TaskKinds == {"call.init", "resync.wait", "resync.init"}

NoTasks == [k \in TaskKinds |-> 0]

ResyncTasks == tasks["resync.wait"] + tasks["resync.init"]

Spawn(t, k) == [t EXCEPT ![k] = @ + 1]
Finish(t, k) == [t EXCEPT ![k] = @ - 1]

\* the record kept in `last`: the handler (for processUpdate, its branch), the
\* updates it applied to the book, the lastUpdateId the book had before and
\* after each of them and, for initialize(), the snapshot id and the number of
\* cached updates it did not apply
Did(op, applied, ids, baseId, skipped) ==
    [op |-> op, applied |-> applied, ids |-> ids, baseId |-> baseId,
     skipped |-> skipped]

Nothing(op) == Did(op, <<>>, <<>>, 0, 0)

\* ProcessUpdateBranch without its test of update.lastUpdateId
ProcessUpdateBranchNoStale(update) ==
    IF syncState = CACHING_UPDATES /\ Len(updateCache) > maxCacheSize
        THEN "overflow"
    ELSE IF syncState = CACHING_UPDATES THEN "cache"
    ELSE IF syncState = SYNCHRONIZED THEN
        IF ~orderBook.exists THEN "throw"
        ELSE IF update.firstUpdateId > orderBook.lastUpdateId + 1 THEN "gap"
        ELSE "apply"
    ELSE "ignore"

\* which branch processUpdate takes for an update
ProcessUpdateBranch(update) ==
    IF syncState = CACHING_UPDATES /\ Len(updateCache) > maxCacheSize
        THEN "overflow"
    ELSE IF syncState = CACHING_UPDATES THEN "cache"
    ELSE IF syncState = SYNCHRONIZED THEN
        IF ~orderBook.exists THEN "throw"
        ELSE IF update.firstUpdateId > orderBook.lastUpdateId + 1 THEN "gap"
        ELSE IF update.lastUpdateId <= orderBook.lastUpdateId THEN "stale"
        ELSE "apply"
    ELSE "ignore"

\* resync() up to its first await
ResyncBegin ==
    /\ syncState' = NOT_INITIALIZED
    /\ orderBook' = NoBook
    /\ updateCache' = <<>>
    /\ tasks' = Spawn(tasks, "resync.wait")

OB_ProcessUpdate(update) ==
    LET branch == ProcessUpdateBranch(update) IN
    /\ branch \in {"overflow", "gap"} => ResyncTasks < MaxResyncTasks
    /\ dropped' = (branch = "gap" \/ (dropped /\ branch /= "overflow"))
    /\ CASE branch \in {"overflow", "gap"} ->
                /\ ResyncBegin
                /\ last' = Nothing(branch)
         [] branch = "cache" ->
                /\ updateCache' = Append(updateCache, update)
                /\ UNCHANGED <<syncState, orderBook, tasks>>
                /\ last' = Nothing(branch)
         [] branch = "apply" ->
                /\ orderBook' = ApplyUpdate(orderBook, update)
                /\ UNCHANGED <<syncState, updateCache, tasks>>
                /\ last' = Did(branch, <<update>>,
                               <<orderBook.lastUpdateId, orderBook'.lastUpdateId>>, 0, 0)
         [] OTHER ->
                /\ UNCHANGED <<syncState, orderBook, updateCache, tasks>>
                /\ last' = Nothing(branch)

\* initialize() up to its first await
InitializeBegin ==
    /\ syncState' = CACHING_UPDATES
    /\ dropped' = FALSE
    /\ UNCHANGED <<orderBook, updateCache, delivered>>

\* initialize() called by the owner of the manager (DTrader.start awaits it)
OB_Initialize ==
    /\ tasks["call.init"] = 0
    /\ InitializeBegin
    /\ tasks' = Spawn(tasks, "call.init")
    /\ last' = Nothing("initialize")

\* resync() after its sleep(1000): it calls initialize()
OB_ResyncWake ==
    /\ tasks["resync.wait"] > 0
    /\ InitializeBegin
    /\ tasks' = Spawn(Finish(tasks, "resync.wait"), "resync.init")
    /\ last' = Nothing("resyncWake")

\* initialize() from the snapshot's arrival to its end
OB_InitializeSnapshot(owner, snapshot) ==
    LET baseId == snapshot.id
        book == SnapshotBook(snapshot)
        done == ReplayCache([book |-> book, applied |-> <<>>, ids |-> <<baseId>>,
                             skipped |-> 0], updateCache, baseId)
    IN  /\ tasks[owner \o ".init"] > 0
        /\ tasks' = Finish(tasks, owner \o ".init")
        /\ orderBook' = done.book
        /\ updateCache' = <<>>
        /\ syncState' = SYNCHRONIZED
        /\ dropped' = FALSE
        /\ UNCHANGED delivered
        /\ last' = Did("snapshot", done.applied, done.ids, baseId, done.skipped)

\* initialize() when getOrderBook rejects: the catch block, which rethrows
OB_InitializeFail(owner) ==
    /\ tasks[owner \o ".init"] > 0
    /\ tasks' = Finish(tasks, owner \o ".init")
    /\ syncState' = NOT_INITIALIZED
    /\ UNCHANGED <<orderBook, updateCache, dropped, delivered>>
    /\ last' = Nothing("fetchFailed")

Owners == {"call", "resync"}

InitOB ==
    /\ syncState = NOT_INITIALIZED
    /\ orderBook = NoBook
    /\ updateCache = <<>>
    /\ tasks = NoTasks
    /\ last = Nothing("new")
    /\ dropped = FALSE
    /\ delivered = 0

-----------------------------------------------------------------------------
(* BroadcastManager: data *)

ClientIds == 1..MaxClients

\* enum SubscriptionChannel
Channels == {"system", "logs", "ticks", "orderbook", "balance", "indicators"}

\* the MessageType values producers pass to broadcast()
DataTypes == {"log", "tick", "orderbook", "balance", "indicator"}

LogLevels == {"info", "error"}

\* the categories Logger.detectCategory tells apart
LogCategories == {"system", "internal"}

Message(type, level) == [type |-> type, level |-> level]

NoClients == [c \in {} |-> 0]

\* the ClientInfo handleNewConnection registers
\* lastPing holds Date.now(); the model keeps which handler set it last
NewClient == [subscriptions |-> {}, open |-> TRUE, lastPing |-> "accept"]

\* MessageChannel with the cases of log and tick exchanged
MessageChannelSwapped(type) ==
    CASE type = "log" -> "ticks"
      [] type = "tick" -> "logs"
      [] type = "orderbook" -> "orderbook"
      [] type = "balance" -> "balance"
      [] OTHER -> "none"

\* the switch of broadcast(): the channel of a message type, "none" for null
MessageChannel(type) ==
    CASE type = "log" -> "logs"
      [] type = "tick" -> "ticks"
      [] type = "orderbook" -> "orderbook"
      [] type = "balance" -> "balance"
      [] OTHER -> "none"

\* the guard of sendToClient: the client is registered and its socket is OPEN
CanSend(c) == c \in DOMAIN clients /\ clients[c].open

\* AddToBuffer dropping the newest message instead of the oldest
AddToBufferDropNewest(buffer, message) ==
    LET pushed == Append(buffer, message) IN
    IF Len(pushed) > maxBufferSize THEN SubSeq(pushed, 1, maxBufferSize) ELSE pushed

\* messageBuffer after addToBuffer(message)
AddToBuffer(buffer, message) ==
    LET pushed == Append(buffer, message) IN
    IF Len(pushed) > maxBufferSize THEN Tail(pushed) ELSE pushed

\* the record kept in hubLast: the handler, the client it served (0: none),
\* the type of the message it sent, the category Logger gave a log, the
\* clients the message was sent to, the channels a request named and the
\* channels the message sent lists
Sent(op, client, type, category, to, channels) ==
    [op |-> op, client |-> client, type |-> type, category |-> category,
     to |-> to, channels |-> channels, listed |-> {}]

\* the record of a subscribed / unsubscribed confirmation that lists `listed`
Confirmed(op, client, type, channels, listed) ==
    [Sent(op, client, type, "", {client}, channels) EXCEPT !.listed = listed]

-----------------------------------------------------------------------------
(* BroadcastManager: handlers *)

\* start(), config.enabled being true
Hub_Start ==
    /\ ~isRunning
    /\ isRunning' = TRUE
    /\ UNCHANGED <<clients, messageBuffer>>
    /\ hubLast' = Sent("start", 0, "", "", {}, {})

\* Hub_Stop closing the sockets without the notice
Hub_StopSilently ==
    /\ isRunning
    /\ isRunning' = FALSE
    /\ clients' = NoClients
    /\ UNCHANGED messageBuffer
    /\ hubLast' = Sent("stop", 0, "", "", {}, {})

\* stop()
Hub_Stop ==
    /\ isRunning
    /\ isRunning' = FALSE
    /\ clients' = NoClients
    /\ UNCHANGED messageBuffer
    /\ hubLast' = Sent("stop", 0, "disconnect", "",
                       {c \in DOMAIN clients : CanSend(c)}, {})

\* handleNewConnection(ws), the id generateClientId gives being c: a session
\* already registered under c is replaced
Hub_HandleNewConnection(c) ==
    /\ isRunning
    /\ clients' = [x \in DOMAIN clients \cup {c} |->
                      IF x = c THEN NewClient ELSE clients[x]]
    /\ UNCHANGED <<isRunning, messageBuffer>>
    /\ hubLast' = Sent("connection", c, "connect", "", {c}, {})

\* the socket of client c leaves the OPEN state; its close event is pending
Hub_SocketCloses(c) ==
    /\ CanSend(c)
    /\ clients' = [clients EXCEPT ![c].open = FALSE]
    /\ UNCHANGED <<isRunning, messageBuffer>>
    /\ hubLast' = Sent("closing", c, "", "", {}, {})

\* Hub_HandleClientDisconnect emptying the registry
Hub_HandleClientDisconnectAll(c) ==
    /\ c \in DOMAIN clients
    /\ ~clients[c].open
    /\ clients' = NoClients
    /\ UNCHANGED <<isRunning, messageBuffer>>
    /\ hubLast' = Sent("disconnect", c, "", "", {}, {})

\* handleClientDisconnect(c), run by the close event of the socket
Hub_HandleClientDisconnect(c) ==
    /\ c \in DOMAIN clients
    /\ ~clients[c].open
    /\ clients' = [x \in DOMAIN clients \ {c} |-> clients[x]]
    /\ UNCHANGED <<isRunning, messageBuffer>>
    /\ hubLast' = Sent("disconnect", c, "", "", {}, {})

RequestKinds == {"empty", "invalid", "ping", "subscribe", "unsubscribe", "unknown"}

\* the channel lists of the subscribe and unsubscribe requests clients send
ChannelRequests == {{}} \cup {{ch} : ch \in Channels} \cup {{"system", "logs"}}

\* Hub_HandleClientMessage confirming with the channel set the request leaves
Hub_HandleClientMessageResultingSet(c, kind, channels) ==
    /\ CanSend(c)
    /\ kind \notin {"subscribe", "unsubscribe"} => channels = {}
    /\ UNCHANGED <<isRunning, messageBuffer>>
    /\ CASE kind = "empty" ->
                /\ UNCHANGED clients
                /\ hubLast' = Sent("message.empty", c, "", "", {}, {})
         [] kind = "ping" ->
                /\ clients' = [clients EXCEPT ![c].lastPing = "ping"]
                /\ hubLast' = Sent("message.ping", c, "pong", "", {c}, {})
         [] kind = "subscribe" ->
                /\ Cardinality(clients[c].subscriptions \cup channels)
                        <= MaxSubscriptions
                /\ clients' = [clients EXCEPT ![c].subscriptions = @ \cup channels]
                /\ hubLast' = Confirmed("message.subscribe", c, "subscribed", channels,
                                        clients[c].subscriptions \cup channels)
         [] kind = "unsubscribe" ->
                /\ clients' = [clients EXCEPT ![c].subscriptions = @ \ channels]
                /\ hubLast' = Confirmed("message.unsubscribe", c, "unsubscribed", channels,
                                        clients[c].subscriptions \ channels)
         [] OTHER ->
                /\ UNCHANGED clients
                /\ hubLast' = Sent("message." \o kind, c, "error", "", {c}, {})

\* Hub_HandleClientMessage dropping the client whose message it cannot read
Hub_HandleClientMessageDropsOffender(c, kind, channels) ==
    /\ CanSend(c)
    /\ kind \notin {"subscribe", "unsubscribe"} => channels = {}
    /\ UNCHANGED <<isRunning, messageBuffer>>
    /\ CASE kind = "empty" ->
                /\ UNCHANGED clients
                /\ hubLast' = Sent("message.empty", c, "", "", {}, {})
         [] kind = "ping" ->
                /\ clients' = [clients EXCEPT ![c].lastPing = "ping"]
                /\ hubLast' = Sent("message.ping", c, "pong", "", {c}, {})
         [] kind = "subscribe" ->
                /\ Cardinality(clients[c].subscriptions \cup channels)
                        <= MaxSubscriptions
                /\ clients' = [clients EXCEPT ![c].subscriptions = @ \cup channels]
                /\ hubLast' = Confirmed("message.subscribe", c, "subscribed", channels, channels)
         [] kind = "unsubscribe" ->
                /\ clients' = [clients EXCEPT ![c].subscriptions = @ \ channels]
                /\ hubLast' = Confirmed("message.unsubscribe", c, "unsubscribed", channels,
                                        channels)
         [] OTHER ->
                /\ clients' = [x \in DOMAIN clients \ {c} |-> clients[x]]
                /\ hubLast' = Sent("message." \o kind, c, "error", "", {c}, {})

\* handleClientMessage(c, data): data is empty, is not JSON, or is a JSON
\* object whose type is ping, subscribe, unsubscribe or something else
Hub_HandleClientMessage(c, kind, channels) ==
    /\ CanSend(c)
    /\ kind \notin {"subscribe", "unsubscribe"} => channels = {}
    /\ UNCHANGED <<isRunning, messageBuffer>>
    /\ CASE kind = "empty" ->
                /\ UNCHANGED clients
                /\ hubLast' = Sent("message.empty", c, "", "", {}, {})
         [] kind = "ping" ->
                /\ clients' = [clients EXCEPT ![c].lastPing = "ping"]
                /\ hubLast' = Sent("message.ping", c, "pong", "", {c}, {})
         [] kind = "subscribe" ->
                /\ Cardinality(clients[c].subscriptions \cup channels)
                        <= MaxSubscriptions
                /\ clients' = [clients EXCEPT ![c].subscriptions = @ \cup channels]
                /\ hubLast' = Confirmed("message.subscribe", c, "subscribed", channels, channels)
         [] kind = "unsubscribe" ->
                /\ clients' = [clients EXCEPT ![c].subscriptions = @ \ channels]
                /\ hubLast' = Confirmed("message.unsubscribe", c, "unsubscribed", channels,
                                        channels)
         [] OTHER ->
                /\ UNCHANGED clients
                /\ hubLast' = Sent("message." \o kind, c, "error", "", {c}, {})

\* Hub_Broadcast without its return when no client is connected
Hub_BroadcastUnguarded(message, category) ==
    IF ~isRunning
    THEN /\ UNCHANGED <<isRunning, clients, messageBuffer>>
         /\ hubLast' = Sent("broadcast", 0, message.type, category, {}, {})
    ELSE LET channel == MessageChannel(message.type) IN
         /\ messageBuffer' = IF message.type = "log"
                             THEN AddToBuffer(messageBuffer, message)
                             ELSE messageBuffer
         /\ UNCHANGED <<isRunning, clients>>
         /\ hubLast' = Sent("broadcast", 0, message.type, category,
                            {c \in DOMAIN clients :
                                /\ channel = "none" \/ channel \in clients[c].subscriptions
                                /\ CanSend(c)},
                            {})

\* broadcast(message); category is what Logger found for a log, "" otherwise
Hub_Broadcast(message, category) ==
    IF ~isRunning \/ DOMAIN clients = {}
    THEN /\ UNCHANGED <<isRunning, clients, messageBuffer>>
         /\ hubLast' = Sent("broadcast", 0, message.type, category, {}, {})
    ELSE LET channel == MessageChannel(message.type) IN
         /\ messageBuffer' = IF message.type = "log"
                             THEN AddToBuffer(messageBuffer, message)
                             ELSE messageBuffer
         /\ UNCHANGED <<isRunning, clients>>
         /\ hubLast' = Sent("broadcast", 0, message.type, category,
                            {c \in DOMAIN clients :
                                /\ channel = "none" \/ channel \in clients[c].subscriptions
                                /\ CanSend(c)},
                            {})

\* Logger.handleLog: the category is detected and then passed to broadcastLog,
\* which takes (level, message, source) and builds the log message from them
Logger_HandleLog(level, category) ==
    IF isRunning
    THEN Hub_Broadcast(Message("log", level), category)
    ELSE /\ UNCHANGED <<isRunning, clients, messageBuffer>>
         /\ hubLast' = Sent("log.dropped", 0, "log", category, {}, {})

InitHub ==
    /\ isRunning = FALSE
    /\ clients = NoClients
    /\ messageBuffer = <<>>
    /\ published = <<>>
    /\ received = NoClients
    /\ hubLast = Sent("new", 0, "", "", {}, {})

-----------------------------------------------------------------------------
(* DTrader: data *)

\* enum EngineState
STOPPED == "STOPPED"
STARTING == "STARTING"
RUNNING == "RUNNING"
STOPPING == "STOPPING"

EngineState == {STOPPED, STARTING, RUNNING, STOPPING}

\* the channels of the subscribe requests start() sends, the order book
\* manager being configured
StartSubscriptions == {"spot.balances", "spot.tickers", "spot.order_book_update"}

\* the channels of the subscribe requests reconnectWebSocket() sends
ReconnectSubscriptions == {"spot.balances", "spot.tickers"}

\* a WebSocket as connectWebSocket() creates it: its readyState ("erroring":
\* an error event and then a close event are due; "closing": a close event is
\* due), whether the handlers of connectWebSocket() are attached, the caller
\* awaiting the promise and the subscribe requests sent on it
NewSocket(awaiter) ==
    [status |-> "connecting", listeners |-> TRUE, awaiter |-> awaiter, subs |-> {}]

\* a socket whose close event has been delivered
ClosedSocket == [status |-> "closed", listeners |-> FALSE, awaiter |-> "none", subs |-> {}]

IsOpen(socks, w) == w /= 0 /\ socks[w].status = "open"

\* the guard of start()
CanStartAlways == TRUE

CanStart == state = STOPPED

\* the guard of stop()
CanStop == state = RUNNING

\* subscribeToBalances, subscribeToTicker, subscribeToOrderBookUpdates: the
\* request is sent when this.ws is open
Subscribe(socks, w, channels) ==
    IF IsOpen(socks, w) THEN [socks EXCEPT ![w].subs = @ \cup channels] ELSE socks

\* ws.close() called by the session
Close(socks, w) ==
    IF w = 0 THEN socks
    ELSE [socks EXCEPT ![w].status =
             CASE @ = "open" -> "closing"
               [] @ = "connecting" -> "erroring"
               [] OTHER -> @]

\* removeAllListeners() on this.ws
RemoveAllListeners(socks, w) ==
    IF w = 0 THEN socks ELSE [socks EXCEPT ![w].listeners = FALSE]

\* the variables of the session after a step
Session(st, w, socks, ping, pong, stale, timers, pc, subs, op) ==
    /\ state' = st
    /\ ws' = w
    /\ sockets' = socks
    /\ pingTimer' = ping
    /\ pongTimeout' = pong
    /\ stalePongTimers' = stale
    /\ reconnectTimers' = timers
    /\ startPc' = pc
    /\ subscribed' = subs
    /\ alive' = (op /= "error.uncaught")
    /\ sessLast' = op
    /\ UNCHANGED <<candleVars, strategyVars, pressureVars>>

\* a step that changes nothing but the history
Ignored(op) == UNCHANGED <<sessCore, candleVars, strategyVars, pressureVars>> /\ sessLast' = op

\* stop() runs to its end without yielding: nothing else runs in STOPPING;
\* nothing runs once the process has died
Ready == state /= STOPPING /\ alive

\* sendPing() sends on this.ws
PingSent(socks, w) == IsOpen(socks, w)

\* pongTimeout and stalePongTimers after sendPing(): the handle is overwritten
PongAfterPing(sent) == IF sent THEN "pending" ELSE pongTimeout

StaleAfterPing(sent) ==
    IF sent /\ pongTimeout = "pending" THEN stalePongTimers + 1 ELSE stalePongTimers

-----------------------------------------------------------------------------
(* DTrader: handlers *)

\* start() up to its first await: connectWebSocket() creates the socket
DT_Start ==
    /\ Ready
    /\ IF ~CanStart THEN Ignored("start.ignored")
       ELSE /\ Len(sockets) < MaxSockets
            /\ Session(STARTING, Len(sockets) + 1, Append(sockets, NewSocket("start")),
                       pingTimer, pongTimeout, stalePongTimers, reconnectTimers,
                       "connect", {}, "start")

\* the open event of socket s: the promise of connectWebSocket() resolves and
\* its awaiter goes on, start() up to sleep(500), reconnectWebSocket() to its end
DT_SocketOpen(s) ==
    /\ Ready
    /\ s \in DOMAIN sockets
    /\ sockets[s].status = "connecting"
    /\ LET opened == [sockets EXCEPT ![s].status = "open", ![s].awaiter = "none"]
           awaiter == IF sockets[s].listeners THEN sockets[s].awaiter ELSE "none"
           sent == PingSent(opened, ws)
       IN  CASE awaiter = "start" ->
                    /\ sent /\ pongTimeout = "pending" =>
                            stalePongTimers < MaxStalePongTimers
                    /\ Session(state, ws, Subscribe(opened, ws, StartSubscriptions),
                               TRUE, PongAfterPing(sent), StaleAfterPing(sent),
                               reconnectTimers, "sleep",
                               IF IsOpen(opened, ws) THEN StartSubscriptions ELSE {},
                               "start.connected")
             [] awaiter = "reconnect" ->
                    Session(state, ws, Subscribe(opened, ws, ReconnectSubscriptions),
                            pingTimer, pongTimeout, stalePongTimers, reconnectTimers,
                            startPc, subscribed, "reconnected")
             [] OTHER ->
                    Session(state, ws, opened, pingTimer, pongTimeout, stalePongTimers,
                            reconnectTimers, startPc, subscribed, "open.unheard")

\* the error event of socket s. While s connects, the error and the close
\* event are emitted one after the other: the error handler rejects the
\* promise of connectWebSocket(), the close handler arms a reconnect timer in
\* RUNNING, and then the awaiter runs its catch block, start() going to
\* STOPPED and reconnectWebSocket() arming a reconnect timer. Once s is open
\* the handler rejects a promise already settled, and the close event follows
\* later. On a socket stripped of its handlers by removeAllListeners() the
\* event has no listener: the emitter throws, and nothing catches the exception
DT_SocketError(s) ==
    /\ Ready
    /\ s \in DOMAIN sockets
    /\ sockets[s].status \in {"connecting", "erroring", "open"}
    /\ LET closed == [sockets EXCEPT ![s] = ClosedSocket]
           closing == [sockets EXCEPT ![s].status = "closing"]
           awaiter == sockets[s].awaiter
           armed == IF state = RUNNING THEN 2 ELSE 1
       IN  CASE ~sockets[s].listeners ->
                    Session(state, ws, closing, pingTimer, pongTimeout, stalePongTimers,
                            reconnectTimers, startPc, subscribed, "error.uncaught")
             [] sockets[s].listeners /\ awaiter = "start" ->
                    Session(STOPPED, ws, closed, pingTimer, pongTimeout, stalePongTimers,
                            reconnectTimers, "idle", subscribed, "start.rejected")
             [] sockets[s].listeners /\ awaiter = "reconnect" ->
                    /\ reconnectTimers + armed <= MaxReconnectTimers
                    /\ Session(state, ws, closed, pingTimer, pongTimeout, stalePongTimers,
                               reconnectTimers + armed, startPc, subscribed,
                               "reconnect.rejected")
             [] OTHER ->
                    Session(state, ws, closing, pingTimer, pongTimeout, stalePongTimers,
                            reconnectTimers, startPc, subscribed, "error.settled")

\* the close event of socket s: in RUNNING the handler arms a reconnect timer
DT_SocketClose(s) ==
    /\ Ready
    /\ s \in DOMAIN sockets
    /\ sockets[s].status \in {"open", "closing"}
    /\ LET closed == [sockets EXCEPT ![s] = ClosedSocket]
           armed == sockets[s].listeners /\ state = RUNNING
       IN  /\ armed => reconnectTimers < MaxReconnectTimers
           /\ Session(state, ws, closed, pingTimer, pongTimeout, stalePongTimers,
                      IF armed THEN reconnectTimers + 1 ELSE reconnectTimers,
                      startPc, subscribed,
                      IF armed THEN "close.reconnect" ELSE "close")

\* a reconnect timer fires: in RUNNING reconnectWebSocket() runs up to its await
DT_ReconnectTimer ==
    /\ Ready
    /\ reconnectTimers > 0
    /\ IF state = RUNNING
       THEN /\ Len(sockets) < MaxSockets
            /\ Session(state, Len(sockets) + 1,
                       Append(RemoveAllListeners(sockets, ws), NewSocket("reconnect")),
                       pingTimer, pongTimeout, stalePongTimers, reconnectTimers - 1,
                       startPc, subscribed, "reconnect")
       ELSE Session(state, ws, sockets, pingTimer, pongTimeout, stalePongTimers,
                    reconnectTimers - 1, startPc, subscribed, "reconnect.skipped")

\* the ping interval fires: sendPing()
DT_SendPing ==
    /\ Ready
    /\ pingTimer
    /\ LET sent == PingSent(sockets, ws) IN
       /\ sent /\ pongTimeout = "pending" => stalePongTimers < MaxStalePongTimers
       /\ Session(state, ws, sockets, pingTimer, PongAfterPing(sent),
                  StaleAfterPing(sent), reconnectTimers, startPc, subscribed,
                  IF sent THEN "ping" ELSE "ping.skipped")

\* handleWebSocketMessage with a spot.pong frame received on socket s
DT_Pong(s) ==
    /\ Ready
    /\ s \in DOMAIN sockets
    /\ sockets[s].status = "open"
    /\ sockets[s].listeners
    /\ Session(state, ws, sockets, pingTimer, "null", stalePongTimers,
               reconnectTimers, startPc, subscribed, "pong")

\* a pong timer fires, the one pongTimeout holds or a stale one: in RUNNING
\* it closes this.ws
DT_PongTimeout(stale) ==
    /\ Ready
    /\ IF stale THEN stalePongTimers > 0 ELSE pongTimeout = "pending"
    /\ Session(state, ws,
               IF state = RUNNING THEN Close(sockets, ws) ELSE sockets,
               pingTimer,
               IF stale THEN pongTimeout ELSE "fired",
               IF stale THEN stalePongTimers - 1 ELSE stalePongTimers,
               reconnectTimers, startPc, subscribed,
               IF state = RUNNING /\ ws /= 0 THEN "pongTimeout.close" ELSE "pongTimeout")

\* stop() down to the call of broadcastManager.stop()
DT_Stop ==
    /\ Ready
    /\ IF ~CanStop THEN Ignored("stop.ignored")
       ELSE Session(STOPPING, 0, Close(sockets, ws), FALSE, "null", stalePongTimers,
                    reconnectTimers, startPc, subscribed, "stop")

\* stop() from broadcastManager.stop() to its end
DT_StopEnd ==
    /\ state = STOPPING
    /\ IF isRunning
          THEN Hub_Stop /\ UNCHANGED <<published, received>>
          ELSE UNCHANGED hubVars
    /\ Session(STOPPED, ws, sockets, pingTimer, pongTimeout, stalePongTimers,
               reconnectTimers, startPc, subscribed, "stopped")

\* start() after sleep(500): it calls orderBookManager.initialize()
DT_StartInitialize ==
    /\ Ready
    /\ startPc = "sleep"
    /\ OB_Initialize
    /\ Session(state, ws, sockets, pingTimer, pongTimeout, stalePongTimers,
               reconnectTimers, "init", subscribed, "start.initialize")

\* start() after initialize() resolved
DT_StartResolved(snapshot) ==
    /\ Ready
    /\ startPc = "init"
    /\ OB_InitializeSnapshot("call", snapshot)
    /\ Session(RUNNING, ws, sockets, pingTimer, pongTimeout, stalePongTimers,
               reconnectTimers, "idle", subscribed, "start.resolved")

\* start() after initialize() rejected: the catch block
DT_StartRejected ==
    /\ Ready
    /\ startPc = "init"
    /\ OB_InitializeFail("call")
    /\ Session(STOPPED, ws, sockets, pingTimer, pongTimeout, stalePongTimers,
               reconnectTimers, "idle", subscribed, "start.rejected")

-----------------------------------------------------------------------------
(* TVPStrategy: the results of the indicators, the rules and the signal *)

\* enum ActivityLevel, and the trend of a TickSpeedResult
ActivityLevels == {"DEAD", "LOW", "NORMAL", "HIGH", "EXTREME"}

Trends == {"rising", "falling", "stable"}

\* enum VolumeSignal
VolumeSignals == {"STRONG_BUY", "BUY", "STRONG_SELL", "SELL", "NEUTRAL", "NO_VOLUME"}

\* what TickSpeedIndicator.calculate() may return; exists = FALSE is the null
\* of indicatorState.tickSpeed
TickSpeedResults == [exists : {TRUE}, activityLevel : ActivityLevels, trend : Trends]

NoTickSpeed == [exists |-> FALSE, activityLevel |-> "DEAD", trend |-> "stable"]

\* rules.*.minVolumeRatio (1.5) and the volumeRatio of a result, in tenths
minVolumeRatio == 15

VolumeRatios == {10, 20}

\* what VolumeConfirmationIndicator.calculate() may return, null included
NoVolumeConfirmation ==
    [exists |-> FALSE, signal |-> "NEUTRAL", volumeRatio |-> 10, isVolumeSpike |-> FALSE]

VolumeConfirmationResults ==
    [exists : {TRUE}, signal : VolumeSignals, volumeRatio : VolumeRatios,
     isVolumeSpike : {FALSE}] \cup {NoVolumeConfirmation}

\* rules.*.minPressureImbalance (0.1) and the imbalance of a result, in
\* thousandths
minPressureImbalance == 100

Imbalances == {0 - 400, 0 - 200, 0, 200, 400}

\* OrderBookPressureIndicator.getDirection
GetDirection(imbalance) ==
    IF imbalance > 300 THEN "STRONG_BUY"
    ELSE IF imbalance > 100 THEN "BUY"
    ELSE IF imbalance < 0 - 300 THEN "STRONG_SELL"
    ELSE IF imbalance < 0 - 100 THEN "SELL"
    ELSE "NEUTRAL"

\* an OrderBookPressureResult
PressureResult(imbalance) ==
    [exists |-> TRUE, imbalance |-> imbalance, direction |-> GetDirection(imbalance)]

NoPressure == [exists |-> FALSE, imbalance |-> 0, direction |-> "NEUTRAL"]

PressureResults == {PressureResult(imbalance) : imbalance \in Imbalances}

\* settings.rules: the three rule sets
Modes == {"conservative", "normal", "aggressive"}

\* rules.*.allowedActivityLevels
allowedActivityLevels == {"NORMAL", "HIGH"}

Rules(mode) ==
    [mode |-> mode,
     minConfirmations |-> CASE mode = "conservative" -> 3
                            [] mode = "normal" -> 2
                            [] OTHER -> 1,
     requireVolumeConfirmation |-> mode /= "aggressive",
     requireStrongSignals |-> mode = "conservative"]

\* settings.filters
ignoreDeadMarket == TRUE
ignoreNoVolume == TRUE
ignoreExtremeVolatility == FALSE

\* onTick recalculates the indicators when tickCount is a multiple of 20, and
\* filters.minTicksBeforeSignal is 100: both scaled down
calculateEvery == 2
minTicksBeforeSignal == 4

\* tickCount after tickCount++, kept up to what the strategy can tell of it:
\* whether it is a multiple of calculateEvery and whether it is below
\* minTicksBeforeSignal
Incremented(count) ==
    IF count = minTicksBeforeSignal + calculateEvery
    THEN minTicksBeforeSignal + 1
    ELSE count + 1

\* the Signal.type onCandle returns, "null" when it returns null
SignalTypes == {"null", "BUY", "SELL", "HOLD"}

Count(conditions) == Cardinality({i \in DOMAIN conditions : conditions[i]})

\* countBuyConfirmations
CountBuyConfirmations(rules, tickSpeed, volumeConfirmation, orderBookPressure) ==
    Count(<<
        IF rules.requireStrongSignals
        THEN volumeConfirmation.signal = "STRONG_BUY"
        ELSE /\ volumeConfirmation.signal \in {"STRONG_BUY", "BUY"}
             /\ volumeConfirmation.volumeRatio >= minVolumeRatio,
        IF rules.requireStrongSignals
        THEN orderBookPressure.direction = "STRONG_BUY"
        ELSE /\ orderBookPressure.direction \in {"STRONG_BUY", "BUY"}
             /\ orderBookPressure.imbalance >= minPressureImbalance,
        /\ tickSpeed.activityLevel \in allowedActivityLevels
        /\ (tickSpeed.trend = "rising" \/ tickSpeed.activityLevel = "HIGH") >>)

\* countSellConfirmations
CountSellConfirmations(rules, tickSpeed, volumeConfirmation, orderBookPressure) ==
    Count(<<
        IF rules.requireStrongSignals
        THEN volumeConfirmation.signal = "STRONG_SELL"
        ELSE /\ volumeConfirmation.signal \in {"STRONG_SELL", "SELL"}
             /\ volumeConfirmation.volumeRatio >= minVolumeRatio,
        IF rules.requireStrongSignals
        THEN orderBookPressure.direction = "STRONG_SELL"
        ELSE /\ orderBookPressure.direction \in {"STRONG_SELL", "SELL"}
             /\ (IF orderBookPressure.imbalance < 0
                 THEN 0 - orderBookPressure.imbalance
                 ELSE orderBookPressure.imbalance) >= minPressureImbalance,
        /\ tickSpeed.activityLevel \in allowedActivityLevels
        /\ (tickSpeed.trend = "falling" \/ tickSpeed.activityLevel = "HIGH") >>)

\* analyzeIndicators
AnalyzeIndicators(rules, indicators) ==
    IF \/ ~indicators.tickSpeed.exists
       \/ ~indicators.volumeConfirmation.exists
       \/ ~indicators.orderBookPressure.exists
    THEN "null"
    ELSE IF CountBuyConfirmations(rules, indicators.tickSpeed,
                indicators.volumeConfirmation, indicators.orderBookPressure)
                >= rules.minConfirmations
    THEN "BUY"
    ELSE IF CountSellConfirmations(rules, indicators.tickSpeed,
                indicators.volumeConfirmation, indicators.orderBookPressure)
                >= rules.minConfirmations
    THEN "SELL"
    ELSE "HOLD"

\* passFilters
PassFilters(indicators, count) ==
    /\ indicators.tickSpeed.exists
    /\ indicators.volumeConfirmation.exists
    /\ count >= minTicksBeforeSignal
    /\ ~(ignoreDeadMarket /\ indicators.tickSpeed.activityLevel = "DEAD")
    /\ ~(ignoreNoVolume /\ indicators.volumeConfirmation.signal = "NO_VOLUME")
    /\ ~(/\ ignoreExtremeVolatility
         /\ indicators.tickSpeed.activityLevel = "EXTREME"
         /\ indicators.volumeConfirmation.isVolumeSpike)

\* onCandle(candle, history): the type of the signal it returns
OnCandle(rules, indicators, count) ==
    IF ~PassFilters(indicators, count) THEN "null"
    ELSE AnalyzeIndicators(rules, indicators)

\* indicatorState after onTick, tickCount having been incremented to count
Calculated(indicators, count, tickSpeed, volumeConfirmation) ==
    IF count % calculateEvery = 0
    THEN [indicators EXCEPT !.tickSpeed = tickSpeed,
                            !.volumeConfirmation = volumeConfirmation]
    ELSE indicators

\* onTick(tick), the two indicators answering tickSpeed and volumeConfirmation
\* if they are asked
TVP_OnTick(tickSpeed, volumeConfirmation) ==
    /\ tickCount' = Incremented(tickCount)
    /\ indicatorState' = Calculated(indicatorState, tickCount', tickSpeed,
                                    volumeConfirmation)
    /\ UNCHANGED currentRules

\* updateOrderBookPressure(result)
TVP_UpdateOrderBookPressure(result) ==
    /\ indicatorState' = [indicatorState EXCEPT !.orderBookPressure = result]
    /\ UNCHANGED <<currentRules, tickCount>>

\* setMode(mode)
TVP_SetMode(mode) ==
    /\ currentRules' = Rules(mode)
    /\ UNCHANGED <<indicatorState, tickCount>>

\* onCandle(candle, history) called on the strategy
TVP_OnCandle ==
    /\ signal' = OnCandle(currentRules, indicatorState, tickCount)
    /\ UNCHANGED <<currentRules, indicatorState, tickCount>>

-----------------------------------------------------------------------------
(* DTrader: the candles and the initial state *)

\* a Candle; exists = FALSE is the null of DTrader.currentCandle
Candle(timestamp, open, high, low, close, volume) ==
    [exists |-> TRUE, timestamp |-> timestamp, open |-> open, high |-> high,
     low |-> low, close |-> close, volume |-> volume]

NoCandle ==
    [exists |-> FALSE, timestamp |-> 0, open |-> 0, high |-> 0, low |-> 0,
     close |-> 0, volume |-> 0]

InitSession ==
    /\ state = STOPPED
    /\ ws = 0
    /\ sockets = <<>>
    /\ pingTimer = FALSE
    /\ pongTimeout = "null"
    /\ stalePongTimers = 0
    /\ reconnectTimers = 0
    /\ startPc = "idle"
    /\ subscribed = {}
    /\ alive = TRUE
    /\ sessLast = "new"
    /\ currentCandle = NoCandle
    /\ candleHistory = <<>>
    /\ candleLast = "new"
    /\ onCandleCalls = <<>>
    /\ currentRules = Rules("normal")
    /\ indicatorState = [tickSpeed |-> NoTickSpeed,
                         volumeConfirmation |-> NoVolumeConfirmation,
                         orderBookPressure |-> NoPressure]
    /\ tickCount = 0
    /\ signal = "null"
    /\ obUpdateCounter = 0
    /\ previousOBPressure = NoPressure

-----------------------------------------------------------------------------
(* The order-book synchronizer on its own *)

Init == InitOB /\ InitHub /\ InitSession

ProcessUpdate(update) ==
    OB_ProcessUpdate(update) /\ UNCHANGED <<delivered, hubVars, sessVars>>

Initialize == OB_Initialize /\ UNCHANGED <<hubVars, sessVars>>

ResyncWake == OB_ResyncWake /\ UNCHANGED <<hubVars, sessVars>>

InitializeSnapshot(owner, snapshot) ==
    OB_InitializeSnapshot(owner, snapshot) /\ UNCHANGED <<hubVars, sessVars>>

InitializeFail(owner) == OB_InitializeFail(owner) /\ UNCHANGED <<hubVars, sessVars>>

Next ==
    \/ Initialize
    \/ ResyncWake
    \/ \E update \in Updates : ProcessUpdate(update)
    \/ \E owner \in Owners, snapshot \in Snapshots : InitializeSnapshot(owner, snapshot)
    \/ \E owner \in Owners : InitializeFail(owner)

Spec == Init /\ [][Next]_vars

\* the timers fire and every REST request is answered, well or not; nothing
\* obliges the owner to call initialize() again or the exchange to send updates
Fairness ==
    /\ WF_vars(ResyncWake)
    /\ WF_vars(\E owner \in Owners :
                  \/ \E snapshot \in Snapshots : InitializeSnapshot(owner, snapshot)
                  \/ InitializeFail(owner))

FairSpec == Spec /\ Fairness

-----------------------------------------------------------------------------
(* The scenario of the specification's section 8: ids 98..106, snapshot 100 *)

ScenarioUpdates ==
    { Update(r[1], r[2], s.bids, s.asks) :
        r \in {<<98, 101>>, <<102, 103>>, <<105, 106>>}, s \in Sides }

ScenarioSnapshots ==
    { [id |-> 100, bids |-> <<Level(2, 2), Level(1, 1)>>, asks |-> <<Level(3, 1)>>] }

NextScenario ==
    \/ Initialize
    \/ ResyncWake
    \/ \E update \in ScenarioUpdates : ProcessUpdate(update)
    \/ \E owner \in Owners, snapshot \in ScenarioSnapshots :
            InitializeSnapshot(owner, snapshot)
    \/ \E owner \in Owners : InitializeFail(owner)

SpecScenario == Init /\ [][NextScenario]_vars

-----------------------------------------------------------------------------
(* Claims about the order-book synchronizer *)

Range(update) == <<update.firstUpdateId, update.lastUpdateId>>

Ranges(updates) == [i \in 1..Len(updates) |-> Range(updates[i])]

\* C1: when initialize() loads the snapshot with id 100 while the cache holds
\* the updates 98..101 and 102..103 in that order, both are applied and the
\* book's lastUpdateId is 103 when the synchronizer becomes SYNCHRONIZED; a
\* following processUpdate of 105..106 is then taken as a gap and resyncs.
C1_ScenarioBothApplied ==
    /\ [][ ( /\ last'.op = "snapshot"
             /\ last'.baseId = 100
             /\ Ranges(updateCache) = << <<98, 101>>, <<102, 103>> >> )
           => ( /\ Ranges(last'.applied) = << <<98, 101>>, <<102, 103>> >>
                /\ orderBook'.lastUpdateId = 103
                /\ syncState' = SYNCHRONIZED ) ]_vars
    /\ [][ \A update \in ScenarioUpdates :
            ( /\ last.op = "snapshot"
              /\ Range(update) = <<105, 106>>
              /\ ProcessUpdate(update) )
            => ( /\ last'.op = "gap"
                 /\ syncState' = NOT_INITIALIZED
                 /\ orderBook' = NoBook ) ]_vars

\* C2: in SYNCHRONIZED, every processUpdate whose update has
\* U > lastUpdateId + 1 drops the book and clears the cache; SYNCHRONIZED is not
\* entered again (so no update is applied) before CACHING_UPDATES has been
\* entered; and SYNCHRONIZED is reached again.
C2_GapResyncsToSynced ==
    /\ [][ \A update \in Updates :
            ( /\ syncState = SYNCHRONIZED
              /\ orderBook.exists
              /\ update.firstUpdateId > orderBook.lastUpdateId + 1
              /\ ProcessUpdate(update) )
            => ( /\ orderBook' = NoBook
                 /\ updateCache' = <<>>
                 /\ syncState' = NOT_INITIALIZED ) ]_vars
    /\ [][ dropped => syncState' /= SYNCHRONIZED ]_vars
    /\ (last.op = "gap") ~> (syncState = SYNCHRONIZED)

NonDecreasing(ids) == \A i \in 1..(Len(ids) - 1) : ids[i] <= ids[i + 1]

\* C8: while a book exists its lastUpdateId never decreases from one applied
\* update to the next, in the replay of initialize() and in processUpdate.
C8_LastUpdateIdNeverDecreases == NonDecreasing(last.ids)

\* C9: in SYNCHRONIZED, processUpdate of an update with u <= lastUpdateId
\* changes neither the book nor the cache nor the sync state; so an update
\* delivered again right after it was applied leaves the book as it is.
C9_StaleUpdateIsNoOp ==
    /\ [][ \A update \in Updates :
            ( /\ syncState = SYNCHRONIZED
              /\ orderBook.exists
              /\ update.lastUpdateId <= orderBook.lastUpdateId
              /\ ProcessUpdate(update) )
            => UNCHANGED <<orderBook, updateCache, syncState, tasks>> ]_vars
    /\ [][ ( /\ last.op = "apply"
             /\ syncState = SYNCHRONIZED
             /\ ProcessUpdate(last.applied[1]) )
           => UNCHANGED <<orderBook, updateCache, syncState, tasks>> ]_vars

\* a stale update was passed to processUpdate in SYNCHRONIZED
C9_Witness ==
    /\ last.op = "stale"
    /\ syncState = SYNCHRONIZED
    /\ orderBook.exists

RECURSIVE ApplyAll(_, _)
ApplyAll(book, updates) ==
    IF updates = <<>> THEN book
    ELSE ApplyAll(ApplyUpdate(book, Head(updates)), Tail(updates))

\* C10: the replay of initialize() after a snapshot with id baseId applies
\* exactly the cached updates with U <= baseId + 1 <= u, in arrival order,
\* discards the others, leaves the cache empty and ends in SYNCHRONIZED.
C10_ReplayAppliesBridgeOnly ==
    [][ last'.op = "snapshot" =>
        LET baseId == last'.baseId
            Bridges(update) == /\ update.firstUpdateId <= baseId + 1
                               /\ baseId + 1 <= update.lastUpdateId
            bridge == SelectSeq(updateCache, Bridges)
        IN  /\ last'.applied = bridge
            /\ last'.skipped = Len(updateCache) - Len(bridge)
            /\ \E snapshot \in Snapshots :
                    /\ snapshot.id = baseId
                    /\ orderBook' = ApplyAll(SnapshotBook(snapshot), bridge)
            /\ updateCache' = <<>>
            /\ syncState' = SYNCHRONIZED ]_vars

\* a replay that applied a cached update and discarded another
C10_Witness ==
    /\ last.op = "snapshot"
    /\ Len(last.applied) >= 1
    /\ last.skipped >= 1
    /\ syncState = SYNCHRONIZED

-----------------------------------------------------------------------------
(* The broadcast hub on its own, fed by its producers *)

HubStart == Hub_Start /\ UNCHANGED <<obVars, sessVars, published, received>>

HubStop == Hub_Stop /\ UNCHANGED <<obVars, sessVars, published, received>>

HandleNewConnection(c) == Hub_HandleNewConnection(c) /\ UNCHANGED <<obVars, sessVars, published, received>>

SocketCloses(c) == Hub_SocketCloses(c) /\ UNCHANGED <<obVars, sessVars, published, received>>

HandleClientDisconnect(c) == Hub_HandleClientDisconnect(c) /\ UNCHANGED <<obVars, sessVars, published, received>>

HandleClientMessage(c, kind, channels) ==
    Hub_HandleClientMessage(c, kind, channels) /\ UNCHANGED <<obVars, sessVars, published, received>>

\* broadcast() called by DTrader with a tick, a balance or an indicator, or by
\* any other holder of the hub with an orderbook message
Broadcast(type) == Hub_Broadcast(Message(type, ""), "") /\ UNCHANGED <<obVars, sessVars, published, received>>

HandleLog(level, category) == Logger_HandleLog(level, category) /\ UNCHANGED <<obVars, sessVars, published, received>>

NextHub ==
    \/ HubStart
    \/ HubStop
    \/ \E c \in ClientIds \ DOMAIN clients : HandleNewConnection(c)
    \/ \E c \in ClientIds : SocketCloses(c)
    \/ \E c \in ClientIds : HandleClientDisconnect(c)
    \/ \E c \in ClientIds, kind \in RequestKinds \ {"ping"}, channels \in ChannelRequests :
            HandleClientMessage(c, kind, channels)
    \/ \E type \in DataTypes \ {"log"} : Broadcast(type)
    \/ \E level \in LogLevels, category \in LogCategories : HandleLog(level, category)

SpecHub == Init /\ [][NextHub]_vars

-----------------------------------------------------------------------------
(* Claims about the broadcast hub *)

\* the channel the specification maps an event type to
ClaimedChannel(type) ==
    CASE type = "log" -> "logs"
      [] type = "tick" -> "ticks"
      [] type = "orderbook" -> "orderbook"
      [] type = "balance" -> "balance"
      [] type = "indicator" -> "indicators"

\* C4: broadcast() sends an event mapped to channel X (log, tick, orderbook,
\* balance, indicator) to no client whose channel set lacks X when it is
\* published; a client that never subscribed receives no data event.
C4_UnsubscribedNeverReceives ==
    (hubLast.op = "broadcast" /\ hubLast.type \in DataTypes) =>
        \A c \in hubLast.to :
            ClaimedChannel(hubLast.type) \in clients[c].subscriptions

\* C5: every log of category system published while a client is connected
\* (registered, socket open) is sent to it, whatever its subscriptions.
C5_SystemLogsReachEveryClient ==
    (hubLast.op = "broadcast" /\ hubLast.type = "log" /\ hubLast.category = "system") =>
        \A c \in DOMAIN clients : clients[c].open => c \in hubLast.to

\* C6: from accept to disconnect the channel set of every client contains
\* system: it is added on accept and no unsubscribe removes it.
C6_SystemAlwaysSubscribed ==
    \A c \in DOMAIN clients : "system" \in clients[c].subscriptions

-----------------------------------------------------------------------------
(* The session: DTrader with its order book manager and its hub, on an
   exchange that is sending no order-book diffs *)

\* the snapshot the exchange serves the session
SessionSnapshots == { sn \in Snapshots : sn.id = 1 }

Start == DT_Start /\ UNCHANGED <<obVars, hubVars>>

Stop == DT_Stop /\ UNCHANGED <<obVars, hubVars>>

StopEnd == DT_StopEnd /\ UNCHANGED obVars

SocketOpen(s) == DT_SocketOpen(s) /\ UNCHANGED <<obVars, hubVars>>

SocketError(s) == DT_SocketError(s) /\ UNCHANGED <<obVars, hubVars>>

SocketClose(s) == DT_SocketClose(s) /\ UNCHANGED <<obVars, hubVars>>

ReconnectTimer == DT_ReconnectTimer /\ UNCHANGED <<obVars, hubVars>>

SendPing == DT_SendPing /\ UNCHANGED <<obVars, hubVars>>

Pong(s) == DT_Pong(s) /\ UNCHANGED <<obVars, hubVars>>

PongTimeout(stale) == DT_PongTimeout(stale) /\ UNCHANGED <<obVars, hubVars>>

StartInitialize == DT_StartInitialize /\ UNCHANGED hubVars

StartResolved(snapshot) == DT_StartResolved(snapshot) /\ UNCHANGED hubVars

StartRejected == DT_StartRejected /\ UNCHANGED hubVars

\* BroadcastManager.start() called by the process that runs the session
BroadcasterStart == alive /\ HubStart

SocketIds == 1..MaxSockets

NextSession ==
    \/ Start
    \/ Stop
    \/ StopEnd
    \/ \E s \in SocketIds : SocketOpen(s)
    \/ \E s \in SocketIds : SocketError(s)
    \/ \E s \in SocketIds : SocketClose(s)
    \/ ReconnectTimer
    \/ SendPing
    \/ \E s \in SocketIds : Pong(s)
    \/ \E stale \in BOOLEAN : PongTimeout(stale)
    \/ StartInitialize
    \/ \E snapshot \in SessionSnapshots : StartResolved(snapshot)
    \/ StartRejected
    \/ BroadcasterStart

SpecSession == Init /\ [][NextSession]_vars

-----------------------------------------------------------------------------
(* Claims about the session *)

\* C3: when a reconnect succeeds after a close in RUNNING, the new socket has
\* been sent a subscribe request for every channel subscribed to before the
\* close: balances, ticker and order-book diffs.
C3_ReconnectResubscribesAll ==
    (sessLast = "reconnected" /\ IsOpen(sockets, ws)) =>
        subscribed \subseteq sockets[ws].subs

\* the transitions of STOPPED -> STARTING -> RUNNING -> STOPPING -> STOPPED
Cycle == { <<STOPPED, STARTING>>, <<STARTING, RUNNING>>,
           <<RUNNING, STOPPING>>, <<STOPPING, STOPPED>> }

\* C7 as stated: the state changes only along the cycle, a start() that fails
\* included; start() outside STOPPED and stop() outside RUNNING change nothing.
C7_OnlyCycle ==
    /\ [][state' /= state => <<state, state'>> \in Cycle]_vars
    /\ [][(Start /\ state /= STOPPED) => UNCHANGED <<sessCore, obVars, hubVars>>]_vars
    /\ [][(Stop /\ state /= RUNNING) => UNCHANGED <<sessCore, obVars, hubVars>>]_vars

\* C7 amended: the state changes only along the cycle or, when start() fails,
\* from STARTING to STOPPED; start() outside STOPPED and stop() outside
\* RUNNING change nothing.
C7_CycleOrFailedStart ==
    /\ [][state' /= state =>
            \/ <<state, state'>> \in Cycle
            \/ state = STARTING /\ state' = STOPPED /\ sessLast' = "start.rejected"]_vars
    /\ [][(Start /\ state /= STOPPED) => UNCHANGED <<sessCore, obVars, hubVars>>]_vars
    /\ [][(Stop /\ state /= RUNNING) => UNCHANGED <<sessCore, obVars, hubVars>>]_vars

\* a start() has just failed in initialize(), after its socket opened and the
\* ping loop started, and has taken the state from STARTING to STOPPED
C7_Witness ==
    /\ sessLast = "start.rejected"
    /\ state = STOPPED
    /\ pingTimer
    /\ IsOpen(sockets, ws)

\* C11: when a pong timer fires, no pong having cancelled it since the ping
\* that armed it, the upstream socket this.ws does not stay open.
C11_TimeoutClosesSocket ==
    [][ ((\E stale \in BOOLEAN : PongTimeout(stale)) /\ IsOpen(sockets, ws))
            => ~IsOpen(sockets', ws') ]_vars

\* C12: right after a pong has been handled no pong timer is pending, neither
\* the one pongTimeout holds nor one armed by an earlier ping.
C12_PongCancelsEveryTimer ==
    sessLast = "pong" => (pongTimeout /= "pending" /\ stalePongTimers = 0)

\* C14: an error of the socket start() is connecting makes start() reject and
\* leaves the state STOPPED; a socket error or close in RUNNING leaves the
\* state RUNNING and raises nothing: no exception escapes the handlers.
C14_ErrorsRejectStartOrReconnect ==
    /\ [][ \A s \in DOMAIN sockets :
             (SocketError(s) /\ sockets[s].listeners /\ sockets[s].awaiter = "start")
                 => (state' = STOPPED /\ sessLast' = "start.rejected") ]_vars
    /\ [][ (state = RUNNING /\ \E s \in DOMAIN sockets : SocketError(s) \/ SocketClose(s))
                 => (state' = RUNNING /\ alive') ]_vars

-----------------------------------------------------------------------------
(* The session when timers fire and connection attempts end *)

\* a pending reconnect timer fires, and every connection attempt ends, with
\* the open event or with an error; nothing obliges a caller to start or stop
\* the session, the exchange to close a socket or to answer a ping
SessionFairness ==
    /\ WF_vars(ReconnectTimer)
    /\ \A s \in SocketIds : WF_vars(SocketOpen(s) \/ SocketError(s))

FairSession == SpecSession /\ SessionFairness

\* a reconnect timer is pending in a live session that has created every
\* socket the model allows: the attempt it would make cannot be followed
SocketsExhausted == alive /\ reconnectTimers > 0 /\ Len(sockets) = MaxSockets

\* C13: a close of this.ws in RUNNING arms a reconnect timer, and so does a
\* reconnect attempt that fails; once a reconnect has been scheduled or begun,
\* the session, for as long as it stays RUNNING, comes to hold an open socket.
C13_ReconnectRetriedUntilOpen ==
    /\ [][ (state = RUNNING /\ ws /= 0 /\ SocketClose(ws))
                => reconnectTimers' = reconnectTimers + 1 ]_vars
    /\ [][ \A s \in DOMAIN sockets :
             (SocketError(s) /\ sockets[s].listeners /\ sockets[s].awaiter = "reconnect")
                => reconnectTimers' > reconnectTimers ]_vars
    /\ (state = RUNNING
            /\ sessLast \in {"close.reconnect", "reconnect", "reconnect.rejected"})
            ~> (IsOpen(sockets, ws) \/ state /= RUNNING \/ SocketsExhausted)

-----------------------------------------------------------------------------
(* Claims about the cache and the accessors of the order book *)

\* C15: in CACHING_UPDATES the cache never holds more than maxCacheSize
\* updates: processUpdate resyncs rather than append one update too many.
C15_CacheWithinBound ==
    syncState = CACHING_UPDATES => Len(updateCache) <= maxCacheSize

\* what an accessor returns: null, or a number
null == <<>>

Some(v) == <<v>>

\* a quotient the accessors compute in floating point, kept exact
Quotient(n, d) == [num |-> n, den |-> d]

\* getBestBid()
GetBestBid(book) ==
    IF ~book.exists \/ Len(book.bids) = 0 THEN null ELSE Some(book.bids[1].price)

\* GetBestAsk reading the other end of the asks
GetBestAskLast(book) ==
    IF ~book.exists \/ Len(book.asks) = 0 THEN null
    ELSE Some(book.asks[Len(book.asks)].price)

\* getBestAsk()
GetBestAsk(book) ==
    IF ~book.exists \/ Len(book.asks) = 0 THEN null ELSE Some(book.asks[1].price)

\* getSpread()
GetSpread(book) ==
    LET bid == GetBestBid(book)
        ask == GetBestAsk(book)
    IN  IF bid = null \/ ask = null THEN null ELSE Some(ask[1] - bid[1])

\* getMidPrice()
GetMidPrice(book) ==
    LET bid == GetBestBid(book)
        ask == GetBestAsk(book)
    IN  IF bid = null \/ ask = null THEN null ELSE Some(Quotient(bid[1] + ask[1], 2))

\* slice(0, n).reduce(sum + price * amount, 0)
RECURSIVE Notional(_, _)
Notional(levels, n) ==
    IF n <= 0 \/ levels = <<>> THEN 0
    ELSE Head(levels).price * Head(levels).amount + Notional(Tail(levels), n - 1)

\* getAsksVolume(levels): a number, 0 without a book
GetAsksVolume(book, levels) ==
    IF ~book.exists THEN 0 ELSE Notional(book.asks, levels)

\* getBidsVolume(levels): a number, 0 without a book
GetBidsVolume(book, levels) ==
    IF ~book.exists THEN 0 ELSE Notional(book.bids, levels)

\* getVolumeRatio(levels)
GetVolumeRatio(book, levels) ==
    IF ~book.exists THEN null
    ELSE LET askVolume == GetAsksVolume(book, levels)
             bidVolume == GetBidsVolume(book, levels)
             totalVolume == askVolume + bidVolume
         IN  IF totalVolume = 0 THEN null
             ELSE Some([askVolume |-> askVolume, bidVolume |-> bidVolume,
                        askPercent |-> Quotient(askVolume * 100, totalVolume),
                        bidPercent |-> Quotient(bidVolume * 100, totalVolume)])

\* C16: whenever the sync state is not SYNCHRONIZED the accessors return
\* nothing: getBestBid, getBestAsk, getSpread, getMidPrice and getVolumeRatio
\* return null and the two volume accessors their empty value, 0.
C16_NothingReadUnlessSynchronized ==
    syncState /= SYNCHRONIZED =>
        /\ GetBestBid(orderBook) = null
        /\ GetBestAsk(orderBook) = null
        /\ GetSpread(orderBook) = null
        /\ GetMidPrice(orderBook) = null
        /\ GetAsksVolume(orderBook, depth) = 0
        /\ GetBidsVolume(orderBook, depth) = 0
        /\ GetVolumeRatio(orderBook, depth) = null

-----------------------------------------------------------------------------
(* The book under diffs that insert, replace and remove levels *)

MaxPrice == 3

Prices == 1..MaxPrice

\* the sides GET /spot/order_book?limit=depth may answer: at most depth levels,
\* bids from the highest price down, asks from the lowest up, no price twice
SnapshotSides(order) ==
    { s \in UNION { [1..n -> {Level(p, 1) : p \in Prices}] : n \in 0..depth } :
        \A i \in 1..(Len(s) - 1) : Before(s[i], s[i + 1], order) }

\* the exchange's own book is never crossed: every bid is below every ask
LevelSnapshots ==
    { snapshot \in [id : {1}, bids : SnapshotSides("desc"),
                                asks : SnapshotSides("asc")] :
        (snapshot.bids /= <<>> /\ snapshot.asks /= <<>>)
            => snapshot.bids[1].price < snapshot.asks[1].price }

\* the levels the diffs carry: the lowest and the highest price are set to
\* amount 2, the prices between them are removed with amount 0
DiffLevels ==
    { Level(p, IF p \in {1, MaxPrice} THEN 2 ELSE 0) : p \in Prices }

\* the b / a arrays of a diff that touches one level of one side
LevelSides ==
    { [bids |-> <<l>>, asks |-> <<>>] : l \in DiffLevels }
    \cup { [bids |-> <<>>, asks |-> <<l>>] : l \in DiffLevels }

\* diffs that continue the snapshot: their range starts at its id
LevelUpdates ==
    { Update(1, u, s.bids, s.asks) : u \in Ids \ {1}, s \in LevelSides }

\* the owner starts the manager when it holds no book: at its first start and
\* after a start that failed
FirstInitialize == ~orderBook.exists /\ Initialize

NextLevels ==
    \/ FirstInitialize
    \/ ResyncWake
    \/ \E update \in LevelUpdates : ProcessUpdate(update)
    \/ \E owner \in Owners, snapshot \in LevelSnapshots :
            InitializeSnapshot(owner, snapshot)
    \/ \E owner \in Owners : InitializeFail(owner)

SpecLevels == Init /\ [][NextLevels]_vars

-----------------------------------------------------------------------------
(* Claims about the levels of the book *)

\* every level a diff could carry for one side
AnyLevels == { Level(p, a) : p \in Prices, a \in 0..2 }

LevelsOf(levels) == { levels[i] : i \in 1..Len(levels) }

HasPrice(levels, price) == \E i \in 1..Len(levels) : levels[i].price = price

WithoutPrice(levels, price) == SelectSeq(levels, LAMBDA l : l.price /= price)

\* result is levels with the amount at newLevel's price replaced and nothing
\* else touched
AmountReplaced(levels, newLevel, result) ==
    /\ Len(result) = Len(levels)
    /\ \A i \in 1..Len(levels) :
          /\ result[i].price = levels[i].price
          /\ result[i].amount = IF levels[i].price = newLevel.price
                                THEN newLevel.amount ELSE levels[i].amount

\* result is an ordered side made of the first levels, at most depth, of
\* levels and newLevel together
InsertedThenCut(levels, newLevel, order, result) ==
    LET all == LevelsOf(levels) \cup {newLevel}
        kept == LevelsOf(result)
    IN  /\ Len(result) = IF Len(levels) + 1 > depth THEN depth ELSE Len(levels) + 1
        /\ \A i \in 1..(Len(result) - 1) : Before(result[i], result[i + 1], order)
        /\ kept \subseteq all
        /\ \A cut \in all \ kept : \A l \in kept : Before(l, cut, order)

\* what updateLevel(levels, newLevel, order) is to return
UpdateLevelContract(levels, newLevel, order, result) ==
    IF newLevel.amount = 0
    THEN result = WithoutPrice(levels, newLevel.price)
    ELSE IF HasPrice(levels, newLevel.price)
         THEN AmountReplaced(levels, newLevel, result)
         ELSE InsertedThenCut(levels, newLevel, order, result)

\* C17: updateLevel on a side of the book: a level with amount 0 removes the
\* entry of that price if there is one and changes nothing otherwise; a level
\* with another amount for a price the side has replaces that entry's amount
\* and leaves the order of the side as it was; a level with a new price is put
\* at its place in the order and the side is then cut to depth levels, so a
\* new price that comes after depth levels of the side is not kept.
C17_UpdateLevelInsertsThenCuts ==
    orderBook.exists =>
        \A newLevel \in AnyLevels :
            /\ UpdateLevelContract(orderBook.bids, newLevel, "desc",
                                   UpdateLevel(orderBook.bids, newLevel, "desc"))
            /\ UpdateLevelContract(orderBook.asks, newLevel, "asc",
                                   UpdateLevel(orderBook.asks, newLevel, "asc"))

\* C17 as the specification words it: a level with a new price is in the side
\* once updateLevel has run
C17_NewPriceIsInserted ==
    orderBook.exists =>
        \A newLevel \in AnyLevels :
            (newLevel.amount /= 0 /\ ~HasPrice(orderBook.bids, newLevel.price))
                => newLevel \in LevelsOf(UpdateLevel(orderBook.bids, newLevel, "desc"))

\* a diff has just set a bid at a new price and the cut to depth levels took
\* it out again
C17_Witness ==
    /\ last.op = "apply"
    /\ Len(last.applied[1].bids) = 1
    /\ last.applied[1].bids[1].amount /= 0
    /\ ~HasPrice(orderBook.bids, last.applied[1].bids[1].price)
    /\ Len(orderBook.bids) = depth

\* C18: with snapshots whose sides arrive ordered and without a repeated
\* price, after every snapshot load, cache replay and applied diff the bids
\* are strictly descending by price and the asks strictly ascending, so no
\* price is twice in a side.
C18_SidesStrictlyOrdered ==
    orderBook.exists =>
        /\ \A i, j \in 1..Len(orderBook.bids) :
              i < j => orderBook.bids[i].price > orderBook.bids[j].price
        /\ \A i, j \in 1..Len(orderBook.asks) :
              i < j => orderBook.asks[i].price < orderBook.asks[j].price

\* a diff has just put a bid at a new price in front of the bids of a book
\* that has several levels on each side
C18_Witness ==
    /\ last.op = "apply"
    /\ Len(last.applied[1].bids) = 1
    /\ last.applied[1].bids[1].amount /= 0
    /\ Len(orderBook.bids) > 1
    /\ Len(orderBook.asks) > 1
    /\ orderBook.bids[1] = last.applied[1].bids[1]

BookHasBothSides ==
    /\ syncState = SYNCHRONIZED
    /\ orderBook.exists
    /\ orderBook.bids /= <<>>
    /\ orderBook.asks /= <<>>

\* C20: once synchronized with both sides non-empty, getBestBid() is at least
\* every bid price of the book, getBestAsk() is at most every ask price, and
\* getSpread() is bestAsk - bestBid; the spread is 0 or more exactly when no
\* bid of the book is above an ask, which the diffs applied may or may not
\* leave true.
C20_BestPricesAndSpread ==
    BookHasBothSides =>
        LET bid == GetBestBid(orderBook)
            ask == GetBestAsk(orderBook)
            spread == GetSpread(orderBook)
        IN  /\ bid /= null /\ ask /= null /\ spread /= null
            /\ \A l \in LevelsOf(orderBook.bids) : bid[1] >= l.price
            /\ \A l \in LevelsOf(orderBook.asks) : ask[1] <= l.price
            /\ spread[1] = ask[1] - bid[1]
            /\ spread[1] >= 0 <=>
                  \A b \in LevelsOf(orderBook.bids), a \in LevelsOf(orderBook.asks) :
                      b.price <= a.price

\* C20 as the specification words it: the spread is never negative
C20_SpreadNeverNegative ==
    BookHasBothSides => GetSpread(orderBook)[1] >= 0

\* a diff has just been applied to a synchronized book that has several asks,
\* and its best bid is now above its best ask
C20_Witness ==
    /\ BookHasBothSides
    /\ last.op = "apply"
    /\ Len(orderBook.asks) > 1
    /\ GetSpread(orderBook)[1] < 0

-----------------------------------------------------------------------------
(* Claims about the handlers of the broadcast hub *)

\* C21: broadcast() called while no client is connected does nothing: the
\* replay buffer stays as it is and nothing is sent, for every type of event,
\* log included.
C21_NoClientsNoWork ==
    [][(DOMAIN clients = {} /\ hubLast'.op \in {"broadcast", "log.dropped"})
          => (messageBuffer' = messageBuffer /\ hubLast'.to = {})]_vars

\* the hub runs with no client and a log has just been published
C21_Witness ==
    /\ isRunning
    /\ DOMAIN clients = {}
    /\ hubLast.op = "broadcast"
    /\ hubLast.type = "log"

\* C22: broadcast() maps every data event type to one channel: log to logs,
\* tick to ticks, orderbook to orderbook, balance to balance, indicator to
\* indicators; only the notices (connect, disconnect, error, subscribed,
\* unsubscribed) have no channel.
C22_EveryDataTypeHasItsChannel ==
    (/\ hubLast.op = "broadcast"
     /\ hubLast.type \in DataTypes
     /\ isRunning
     /\ DOMAIN clients /= {}) =>
        MessageChannel(hubLast.type) = ClaimedChannel(hubLast.type)

\* C23: the confirmation sent in reply to a subscribe (unsubscribe) request
\* goes to the requesting client alone and lists the channels the request
\* named, whatever the channel set of the client is after the request.
C23_ConfirmationListsRequestedChannels ==
    [][hubLast'.op \in {"message.subscribe", "message.unsubscribe"} =>
          LET c == hubLast'.client IN
          /\ hubLast'.type = IF hubLast'.op = "message.subscribe"
                             THEN "subscribed" ELSE "unsubscribed"
          /\ hubLast'.to = {c}
          /\ hubLast'.listed = hubLast'.channels
          /\ clients'[c].subscriptions =
                IF hubLast'.op = "message.subscribe"
                THEN clients[c].subscriptions \cup hubLast'.channels
                ELSE clients[c].subscriptions \ hubLast'.channels]_vars

\* C23 as the specification words it: the confirmation lists the channel set
\* the client has once the request is applied
C23_ConfirmationListsResultingSet ==
    (/\ hubLast.op \in {"message.subscribe", "message.unsubscribe"}
     /\ hubLast.client \in DOMAIN clients) =>
        hubLast.listed = clients[hubLast.client].subscriptions

\* a client that had a channel has just subscribed to another one: the
\* confirmation names one channel, the client has two
C23_Witness ==
    /\ hubLast.op = "message.subscribe"
    /\ hubLast.client \in DOMAIN clients
    /\ Cardinality(hubLast.listed) = 1
    /\ Cardinality(clients[hubLast.client].subscriptions) = 2

C26_BufferOfLogsBoundedFifoNotReplayed ==
    /\ [](/\ Len(messageBuffer) <= maxBufferSize
          /\ \A i \in 1..Len(messageBuffer) : messageBuffer[i].type = "log")
    /\ [][/\ messageBuffer' /= messageBuffer =>
                (hubLast'.op = "broadcast" /\ hubLast'.type = "log")
          /\ (/\ hubLast'.op = "broadcast"
              /\ hubLast'.type = "log"
              /\ isRunning
              /\ DOMAIN clients /= {}) =>
                /\ messageBuffer' /= <<>>
                /\ SubSeq(messageBuffer', 1, Len(messageBuffer') - 1) =
                      IF Len(messageBuffer) = maxBufferSize
                      THEN Tail(messageBuffer) ELSE messageBuffer
          /\ hubLast'.op = "connection" =>
                /\ hubLast'.type = "connect"
                /\ hubLast'.to = {hubLast'.client}
                /\ messageBuffer' = messageBuffer]_vars

\* a client has just been accepted while the buffer is full of logs of
\* different levels
C26_Witness ==
    /\ hubLast.op = "connection"
    /\ Len(messageBuffer) = maxBufferSize
    /\ messageBuffer[1] /= messageBuffer[maxBufferSize]

\* C28: stop() sends every connected client (registered, socket open) the
\* disconnect notice of the shutdown before it closes the sockets; after it
\* the registry is empty and, until the hub is started again, broadcast()
\* sends nothing.
C28_StopNotifiesThenEmpties ==
    /\ [][hubLast'.op = "stop" /\ isRunning =>
                /\ hubLast'.type = "disconnect"
                /\ hubLast'.to = {c \in DOMAIN clients : clients[c].open}
                /\ DOMAIN clients' = {}
                /\ ~isRunning']_vars
    /\ [](~isRunning =>
                /\ DOMAIN clients = {}
                /\ hubLast.op \in {"broadcast", "log.dropped"} => hubLast.to = {})

\* stop() has just notified two clients
C28_Witness ==
    /\ hubLast.op = "stop"
    /\ hubLast.to = ClientIds

-----------------------------------------------------------------------------
(* The hub and its clients, with what each client has been sent *)

MaxPublished == 2

\* the channel lists of the requests of these clients
ClientChannelRequests == {{"ticks"}, {"ticks", "logs"}}

\* the history of a hub step: a data event that reached the send loop of
\* broadcast() is appended to published and to received[c] of every client it
\* was sent to; a session starts with nothing received
Recorded ==
    /\ published' = IF hubLast'.op = "broadcast" /\ isRunning /\ DOMAIN clients /= {}
                    THEN Append(published, hubLast'.type)
                    ELSE published
    /\ received' = [c \in DOMAIN clients' |->
                      IF hubLast'.op = "connection" /\ hubLast'.client = c THEN <<>>
                      ELSE IF hubLast'.op = "broadcast" /\ c \in hubLast'.to
                           THEN Append(received[c], hubLast'.type)
                           ELSE received[c]]

ClientsStart == Hub_Start /\ Recorded /\ UNCHANGED <<obVars, sessVars>>

ClientsStop == Hub_Stop /\ Recorded /\ UNCHANGED <<obVars, sessVars>>

Accept(c) == Hub_HandleNewConnection(c) /\ Recorded /\ UNCHANGED <<obVars, sessVars>>

ClientSocketCloses(c) == Hub_SocketCloses(c) /\ Recorded /\ UNCHANGED <<obVars, sessVars>>

ClientDisconnect(c) ==
    Hub_HandleClientDisconnect(c) /\ Recorded /\ UNCHANGED <<obVars, sessVars>>

ClientMessage(c, kind, channels) ==
    Hub_HandleClientMessage(c, kind, channels) /\ Recorded /\ UNCHANGED <<obVars, sessVars>>

\* broadcast() of a data event, as long as the history has room for it
Publish(type) ==
    /\ Len(published) < MaxPublished
    /\ Hub_Broadcast(Message(type, ""), "")
    /\ Recorded
    /\ UNCHANGED <<obVars, sessVars>>

PublishLog(level, category) ==
    /\ Len(published) < MaxPublished
    /\ Logger_HandleLog(level, category)
    /\ Recorded
    /\ UNCHANGED <<obVars, sessVars>>

NextClients ==
    \/ ClientsStart
    \/ ClientsStop
    \/ \E c \in ClientIds \ DOMAIN clients : Accept(c)
    \/ \E c \in ClientIds : ClientSocketCloses(c)
    \/ \E c \in ClientIds : ClientDisconnect(c)
    \/ \E c \in ClientIds, kind \in RequestKinds, channels \in ClientChannelRequests \cup {{}} :
            ClientMessage(c, kind, channels)
    \/ \E type \in {"tick", "indicator"} : Publish(type)
    \/ PublishLog("info", "system")

SpecClients == Init /\ [][NextClients]_vars

-----------------------------------------------------------------------------
(* The hub when generateClientId may return an id that is in use *)

\* generateClientId joins Date.now() and nine base-36 digits of Math.random()
\* and looks at no registered id: any id may come out of it
NextAccept ==
    \/ ClientsStart
    \/ ClientsStop
    \/ \E c \in ClientIds : Accept(c)
    \/ \E c \in ClientIds : ClientSocketCloses(c)
    \/ \E c \in ClientIds : ClientDisconnect(c)
    \/ \E c \in ClientIds, kind \in RequestKinds, channels \in {{}, {"ticks"}} :
            ClientMessage(c, kind, channels)
    \/ Publish("tick")

SpecAccept == Init /\ [][NextAccept]_vars

\* C25: accepting a connection registers a session under an id that no
\* session registered at that moment has, and the first message sent to the
\* new client is the connect notice, which carries that id.
C25_AcceptedUnderFreshId ==
    [][hubLast'.op = "connection" =>
          LET c == hubLast'.client IN
          /\ c \notin DOMAIN clients
          /\ DOMAIN clients' = DOMAIN clients \cup {c}
          /\ hubLast'.type = "connect"
          /\ hubLast'.to = {c}
          /\ received'[c] = <<>>]_vars

-----------------------------------------------------------------------------
(* Claims about the clients of the hub *)

\* the steps made for one client: its messages, the closing of its socket and
\* its disconnect
ClientSteps ==
    {"closing", "disconnect"} \cup {"message." \o kind : kind \in RequestKinds}

\* C27: the channel set of a client changes only in that client's own
\* subscribe and unsubscribe requests, and a disconnect removes the session
\* of the client that disconnected and no other: every other session stays
\* registered with its channel set and its liveness mark through any message
\* or disconnect of another client.
C27_OtherSessionsUntouched ==
    [][/\ hubLast'.op \in ClientSteps =>
             \A other \in DOMAIN clients \ {hubLast'.client} :
                 /\ other \in DOMAIN clients'
                 /\ clients'[other] = clients[other]
       /\ hubLast'.op = "disconnect" =>
             DOMAIN clients' = DOMAIN clients \ {hubLast'.client}
       /\ \A c \in DOMAIN clients \cap DOMAIN clients' :
             clients'[c].subscriptions /= clients[c].subscriptions =>
                 /\ hubLast'.op \in {"message.subscribe", "message.unsubscribe"}
                 /\ hubLast'.client = c]_vars

\* a client has just disconnected while another one, which has subscribed
\* and sent a ping, stays registered
C27_Witness ==
    /\ hubLast.op = "disconnect"
    /\ \E other \in DOMAIN clients :
          /\ other /= hubLast.client
          /\ clients[other].subscriptions /= {}
          /\ clients[other].lastPing = "ping"

RECURSIVE IsSubsequence(_, _)
\* the elements of s are found in t in the order they have in s
IsSubsequence(s, t) ==
    IF s = <<>> THEN TRUE
    ELSE IF t = <<>> THEN FALSE
    ELSE IF Head(s) = Head(t) THEN IsSubsequence(Tail(s), Tail(t))
    ELSE IsSubsequence(s, Tail(t))

\* C29: a client whose channel set contains X and whose socket is open is
\* sent every event mapped to X that is published while it is connected, and
\* the events are sent to a client in the order of their publication; a
\* client subscribed to ticks alone is sent a published tick and is not sent
\* a published log.
C29_SubscribersServedInOrder ==
    /\ [][(hubLast'.op = "broadcast" /\ isRunning) =>
             \A c \in DOMAIN clients :
                 /\ (clients[c].open
                       /\ ClaimedChannel(hubLast'.type) \in clients[c].subscriptions)
                        => (c \in hubLast'.to
                              /\ received'[c] = Append(received[c], hubLast'.type))
                 /\ (clients[c].subscriptions = {"ticks"} /\ hubLast'.type = "log")
                        => c \notin hubLast'.to]_vars
    /\ [](\A c \in DOMAIN clients : IsSubsequence(received[c], published))

\* a tick and then a log were published; one client, subscribed to both
\* channels, was sent both and another, subscribed to ticks, the tick only
C29_Witness ==
    /\ published = <<"tick", "log">>
    /\ \E c, d \in DOMAIN clients :
          /\ clients[c].subscriptions = {"ticks", "logs"}
          /\ received[c] = <<"tick", "log">>
          /\ clients[d].subscriptions = {"ticks"}
          /\ received[d] = <<"tick">>

-----------------------------------------------------------------------------
(* DTrader: the candles formed from the ticks *)

\* the NaN parseFloat returns for a field that is missing or not a number;
\* the prices and volumes of well-formed frames are all above it
NaN == 0

\* Math.max / Math.min, which return NaN when an argument is NaN
Max(a, b) == IF a = NaN \/ b = NaN THEN NaN ELSE IF a >= b THEN a ELSE b
Min(a, b) == IF a = NaN \/ b = NaN THEN NaN ELSE IF a <= b THEN a ELSE b

\* the ticks handleTickerUpdate forms: Date.now(), the last price and the
\* base volume of the ticker
Ticks == [timestamp : 0..MaxTime, price : Prices, volume : {1, 2}]

\* Math.floor(tick.timestamp / this.candleInterval) * this.candleInterval
CandleStartTime(tick) == (tick.timestamp \div candleInterval) * candleInterval

\* the candle a tick opens
OpenedBy(tick) ==
    Candle(CandleStartTime(tick), tick.price, tick.price, tick.price, tick.price,
           tick.volume)

\* UpdatedBy also moving the open of the candle
UpdatedByWithOpen(candle, tick) ==
    [candle EXCEPT !.open = tick.price,
                   !.high = Max(candle.high, tick.price),
                   !.low = Min(candle.low, tick.price),
                   !.close = tick.price,
                   !.volume = tick.volume]

\* the open candle after a tick of its own interval
UpdatedBy(candle, tick) ==
    [candle EXCEPT !.high = Max(candle.high, tick.price),
                   !.low = Min(candle.low, tick.price),
                   !.close = tick.price,
                   !.volume = tick.volume]

\* Closed removing the newest candle when the history is too long
ClosedDropNewest(history, candle) ==
    LET pushed == Append(history, candle) IN
    IF Len(pushed) > maxCandleHistory
    THEN SubSeq(pushed, 1, maxCandleHistory)
    ELSE pushed

\* candleHistory after closeCandle(candle): push, then shift when too long
Closed(history, candle) ==
    LET pushed == Append(history, candle) IN
    IF Len(pushed) > maxCandleHistory THEN Tail(pushed) ELSE pushed

\* updateCandle(tick), with the closeCandle it calls, the strategy having the
\* given indicators and count of ticks when closeCandle calls its onCandle
UpdateCandleWith(tick, indicators, count) ==
    IF ~currentCandle.exists \/ currentCandle.timestamp /= CandleStartTime(tick)
    THEN /\ currentCandle' = OpenedBy(tick)
         /\ candleHistory' = IF currentCandle.exists
                             THEN Closed(candleHistory, currentCandle)
                             ELSE candleHistory
         /\ onCandleCalls' = IF currentCandle.exists
                             THEN <<currentCandle>>
                             ELSE <<>>
         /\ signal' = IF currentCandle.exists
                      THEN OnCandle(currentRules, indicators, count)
                      ELSE signal
         /\ candleLast' = IF currentCandle.exists THEN "rolled" ELSE "opened"
    ELSE /\ currentCandle' = UpdatedBy(currentCandle, tick)
         /\ UNCHANGED <<candleHistory, signal>>
         /\ onCandleCalls' = <<>>
         /\ candleLast' = "updated"

\* updateCandle(tick)
DT_UpdateCandle(tick) ==
    /\ UpdateCandleWith(tick, indicatorState, tickCount)
    /\ UNCHANGED <<currentRules, indicatorState, tickCount>>

\* the part of handleTickerUpdate(message) that concerns the strategy, for an
\* update from which it forms tick: strategy.onTick(tick), then updateCandle
DT_HandleTickerUpdate(tick, tickSpeed, volumeConfirmation) ==
    /\ TVP_OnTick(tickSpeed, volumeConfirmation)
    /\ UpdateCandleWith(tick, indicatorState', tickCount')

\* handleOrderBookUpdate computes the pressure on every pressureEvery-th update
pressureEvery == 2

\* obUpdateCounter++ and, on every pressureEvery-th update, the pressure of the
\* book if there is one; result is what obPressureIndicator.calculate answers
DT_CountUpdate(result) ==
    /\ obUpdateCounter' = (obUpdateCounter + 1) % pressureEvery
    /\ previousOBPressure' = IF obUpdateCounter' = 0 /\ orderBook'.exists
                             THEN result
                             ELSE previousOBPressure

\* handleOrderBookUpdate(message) for an update: processUpdate, the counter,
\* and the pressure broadcast as an indicator and kept in previousOBPressure
DT_HandleOrderBookUpdate(update, result) ==
    /\ OB_ProcessUpdate(update)
    /\ UNCHANGED delivered
    /\ DT_CountUpdate(result)
    /\ IF obUpdateCounter' = 0 /\ orderBook'.exists /\ isRunning
       THEN Hub_Broadcast(Message("indicator", ""), "") /\ UNCHANGED <<published, received>>
       ELSE UNCHANGED hubVars
    /\ UNCHANGED <<sessCore, candleVars, strategyVars>>
    /\ sessLast' = "order_book.update"

UpdateCandle(tick) ==
    DT_UpdateCandle(tick) /\ UNCHANGED <<obVars, hubVars, sessCore, sessLast, pressureVars>>

NextCandles == \E tick \in Ticks : UpdateCandle(tick)

SpecCandles == Init /\ [][NextCandles]_vars

-----------------------------------------------------------------------------
(* Claims about the candles *)

\* the start of the interval a timestamp falls in, as the specification
\* gives it
Bucket(timestamp) ==
    CHOOSE b \in 0..timestamp :
        b % candleInterval = 0 /\ b <= timestamp /\ timestamp < b + candleInterval

\* C30: with bucket = floor(tick.timestamp / intervalMs) * intervalMs, a tick
\* whose bucket is not that of the open candle closes the open candle and
\* opens one with open = high = low = close = tick.price; a tick of the same
\* bucket changes only high (max), low (min), close and volume of the open
\* candle; there is never more than one open candle, the one of the bucket of
\* the last tick.
C30_CandleFollowsBuckets ==
    [][\A tick \in Ticks : UpdateCandle(tick) =>
          LET bucket == Bucket(tick.timestamp) IN
          IF currentCandle.exists /\ currentCandle.timestamp = bucket
          THEN /\ currentCandle' =
                     [currentCandle EXCEPT
                         !.high = IF tick.price > @ THEN tick.price ELSE @,
                         !.low = IF tick.price < @ THEN tick.price ELSE @,
                         !.close = tick.price,
                         !.volume = tick.volume]
               /\ candleHistory' = candleHistory
          ELSE /\ currentCandle'.exists
               /\ currentCandle'.timestamp = bucket
               /\ currentCandle'.open = tick.price
               /\ currentCandle'.high = tick.price
               /\ currentCandle'.low = tick.price
               /\ currentCandle'.close = tick.price
               /\ currentCandle.exists =>
                     /\ candleHistory' /= <<>>
                     /\ candleHistory'[Len(candleHistory')] = currentCandle
               /\ ~currentCandle.exists => candleHistory' = candleHistory]_vars

\* a candle that ticks of its interval had widened has just been closed by a
\* tick of another interval
C30_Witness ==
    /\ candleLast = "rolled"
    /\ candleHistory /= <<>>
    /\ candleHistory[Len(candleHistory)].high > candleHistory[Len(candleHistory)].open
    /\ candleHistory[Len(candleHistory)].low < candleHistory[Len(candleHistory)].open
    /\ currentCandle.timestamp /= candleHistory[Len(candleHistory)].timestamp

\* a step closes the open candle when it leaves a candle of another interval
\* open
ClosesCandle ==
    /\ currentCandle.exists
    /\ currentCandle'.timestamp /= currentCandle.timestamp

\* C31: every closed candle is appended to the candle history and passed to
\* the strategy exactly once, in closing order (each step that closes a candle
\* appends that candle and makes one onCandle call with it, every other step
\* appends nothing and calls nothing); the history never holds more than
\* maxCandleHistory candles and loses its oldest candle first.
C31_ClosedCandlesKeptAndDelivered ==
    /\ [](Len(candleHistory) <= maxCandleHistory)
    /\ [][IF ClosesCandle
          THEN /\ onCandleCalls' = <<currentCandle>>
               /\ candleHistory' =
                      IF Len(candleHistory) < maxCandleHistory
                      THEN Append(candleHistory, currentCandle)
                      ELSE Append(Tail(candleHistory), currentCandle)
          ELSE /\ onCandleCalls' = <<>>
               /\ candleHistory' = candleHistory]_vars

\* the history is full of candles that differ, and the newest of them is the
\* one the strategy has just been given
C31_Witness ==
    /\ candleLast = "rolled"
    /\ Len(candleHistory) = maxCandleHistory
    /\ candleHistory[1] /= candleHistory[maxCandleHistory]
    /\ candleHistory[1].close /= candleHistory[maxCandleHistory].close
    /\ onCandleCalls = <<candleHistory[maxCandleHistory]>>
    /\ currentCandle.exists

-----------------------------------------------------------------------------
(* DTrader: frames of the exchange that are not well formed *)

\* frames handleWebSocketMessage may be given: text that JSON.parse rejects,
\* an update of spot.balances whose result is no array, an update of
\* spot.tickers whose result has no `last`, an update of
\* spot.order_book_update whose result has no `b` or `a`
MalformedFrames ==
    {"unparseable", "balances.result", "tickers.last", "order_book_update.levels"}

\* the answers to a subscription that carry an error
SubscriptionFailures ==
    {"balances.subscribe", "tickers.subscribe", "order_book_update.subscribe"}

\* the values of Date.now() when the frames arrive: one interval of candles
FrameTimes == 0..(candleInterval - 1)

\* the tick handleTickerUpdate forms from a result without `last`:
\* parseFloat(undefined) is its price
TickWithoutLast(timestamp) == [timestamp |-> timestamp, price |-> NaN, volume |-> 1]

\* what the two indicators of the strategy answer in this specification
FrameTickSpeeds == {t \in TickSpeedResults : t.activityLevel = "NORMAL" /\ t.trend = "stable"}

FrameVolumeConfirmations == {NoVolumeConfirmation}

\* handleWebSocketMessage(data) for such a frame. processUpdate tests the
\* overflow of the cache before it reads b and a, and the TypeError of a
\* missing b, a or forEach is caught by handleWebSocketMessage
DT_HandleWebSocketMessage(frame, timestamp) ==
    /\ UNCHANGED sessCore
    /\ sessLast' = frame
    /\ CASE frame = "order_book_update.levels" ->
                /\ UNCHANGED <<candleVars, strategyVars>>
                /\ IF ProcessUpdateBranch(NoUpdate) = "overflow"
                   THEN /\ ResyncTasks < MaxResyncTasks
                        /\ ResyncBegin
                        /\ dropped' = FALSE
                        /\ UNCHANGED delivered
                        /\ last' = Nothing("overflow")
                        /\ DT_CountUpdate(NoPressure)
                   ELSE UNCHANGED <<obVars, pressureVars>>
         [] frame = "tickers.last" ->
                /\ \E tickSpeed \in FrameTickSpeeds,
                      volumeConfirmation \in FrameVolumeConfirmations :
                        DT_HandleTickerUpdate(TickWithoutLast(timestamp), tickSpeed,
                                              volumeConfirmation)
                /\ UNCHANGED <<obVars, pressureVars>>
         [] OTHER ->
                UNCHANGED <<obVars, candleVars, strategyVars, pressureVars>>

HandleWebSocketMessage(frame, timestamp) ==
    DT_HandleWebSocketMessage(frame, timestamp) /\ UNCHANGED hubVars

HandleTickerUpdate(tick, tickSpeed, volumeConfirmation) ==
    /\ DT_HandleTickerUpdate(tick, tickSpeed, volumeConfirmation)
    /\ UNCHANGED <<obVars, hubVars, sessCore, sessLast, pressureVars>>

\* the well-formed frames of this specification: the diffs of the scenario
\* that carry bids, and ticks of one price
FrameUpdates == {update \in ScenarioUpdates : update.asks = <<>>}

FrameTicks == {tick \in Ticks : tick.timestamp \in FrameTimes /\ tick.price = 1
                                  /\ tick.volume = 1}

NextFrames ==
    \/ Initialize
    \/ ResyncWake
    \/ \E update \in FrameUpdates : ProcessUpdate(update)
    \/ \E owner \in Owners, snapshot \in ScenarioSnapshots :
            InitializeSnapshot(owner, snapshot)
    \/ \E owner \in Owners : InitializeFail(owner)
    \/ \E tick \in FrameTicks, tickSpeed \in FrameTickSpeeds,
          volumeConfirmation \in FrameVolumeConfirmations :
            HandleTickerUpdate(tick, tickSpeed, volumeConfirmation)
    \/ \E frame \in MalformedFrames \cup SubscriptionFailures, timestamp \in FrameTimes :
            HandleWebSocketMessage(frame, timestamp)

SpecFrames == Init /\ [][NextFrames]_vars

-----------------------------------------------------------------------------
(* Claims about the frames that are not well formed *)

\* C32: a malformed frame of the exchange (text that does not parse, or a
\* frame of a known channel with fields missing or of the wrong type) is
\* dropped: the session state, the order book, the update cache and the candle
\* state are what they were, and so is the synchronisation state, so that
\* later frames are processed as before; a subscription failure does not stop
\* the session either.
C32_MalformedFrameDropped ==
    [][\A frame \in MalformedFrames \cup SubscriptionFailures, timestamp \in FrameTimes :
          HandleWebSocketMessage(frame, timestamp) =>
              UNCHANGED <<state, syncState, orderBook, updateCache,
                          currentCandle, candleHistory>>]_vars

-----------------------------------------------------------------------------
(* Claims about the resync of the order-book synchronizer *)

\* a snapshot fetch fails
FetchFails == \E owner \in Owners : InitializeFail(owner)

\* C33: a resync started by a gap or by an overflow of the cache heals by
\* itself: processUpdate never throws, and unless snapshot fetches go on
\* failing for ever, SYNCHRONIZED is reached again after every such resync,
\* also when a fetch of the resync failed.
C33_ResyncHealsItself ==
    /\ [][last'.op /= "throw"]_vars
    /\ \/ []<><<FetchFails>>_vars
       \/ (last.op \in {"gap", "overflow"}) ~> (syncState = SYNCHRONIZED)

-----------------------------------------------------------------------------
(* TVPStrategy on its own: its public methods called in any order *)

OnTick(tickSpeed, volumeConfirmation) ==
    /\ TVP_OnTick(tickSpeed, volumeConfirmation)
    /\ UNCHANGED <<signal, obVars, hubVars, sessCore, sessLast, candleVars, pressureVars>>

UpdateOrderBookPressure(result) ==
    /\ TVP_UpdateOrderBookPressure(result)
    /\ UNCHANGED <<signal, obVars, hubVars, sessCore, sessLast, candleVars, pressureVars>>

SetMode(mode) ==
    /\ TVP_SetMode(mode)
    /\ UNCHANGED <<signal, obVars, hubVars, sessCore, sessLast, candleVars, pressureVars>>

OnCandleCalled ==
    /\ TVP_OnCandle
    /\ UNCHANGED <<obVars, hubVars, sessCore, sessLast, candleVars, pressureVars>>

NextStrategy ==
    \/ \E tickSpeed \in TickSpeedResults,
          volumeConfirmation \in VolumeConfirmationResults :
            OnTick(tickSpeed, volumeConfirmation)
    \/ \E result \in PressureResults : UpdateOrderBookPressure(result)
    \/ \E mode \in Modes : SetMode(mode)
    \/ OnCandleCalled

SpecStrategy == Init /\ [][NextStrategy]_vars

-----------------------------------------------------------------------------
(* Claims about the strategy *)

\* C34: in a mode whose rules set requireVolumeConfirmation (conservative,
\* normal), onCandle returns BUY only if the volume-confirmation indicator
\* signals BUY or STRONG_BUY, and SELL only if it signals SELL or STRONG_SELL,
\* whatever the three indicators say.
C34_VolumeConfirmsEverySignal ==
    [][(OnCandleCalled /\ currentRules.requireVolumeConfirmation) =>
          /\ signal' = "BUY" =>
                indicatorState.volumeConfirmation.signal \in {"BUY", "STRONG_BUY"}
          /\ signal' = "SELL" =>
                indicatorState.volumeConfirmation.signal \in {"SELL", "STRONG_SELL"}]_vars

-----------------------------------------------------------------------------
(* The engine with its strategy: the order-book updates and the tickers *)

HandleOrderBookUpdate(update, result) == DT_HandleOrderBookUpdate(update, result)

\* the indicators of this specification: those that favour a BUY
EngineTickSpeeds ==
    {tickSpeed \in TickSpeedResults :
        tickSpeed.activityLevel = "NORMAL" /\ tickSpeed.trend = "rising"}

EngineVolumeConfirmations ==
    {volumeConfirmation \in VolumeConfirmationResults :
        /\ volumeConfirmation.signal = "STRONG_BUY"
        /\ volumeConfirmation.volumeRatio = 20}

EngineTicks == {tick \in Ticks : tick.price = 1 /\ tick.volume = 1}

NextEngine ==
    \/ Initialize
    \/ ResyncWake
    \/ \E owner \in Owners, snapshot \in ScenarioSnapshots :
            InitializeSnapshot(owner, snapshot)
    \/ \E update \in FrameUpdates, result \in PressureResults :
            HandleOrderBookUpdate(update, result)
    \/ \E tick \in EngineTicks, tickSpeed \in EngineTickSpeeds,
          volumeConfirmation \in EngineVolumeConfirmations :
            HandleTickerUpdate(tick, tickSpeed, volumeConfirmation)

SpecEngine == Init /\ [][NextEngine]_vars

-----------------------------------------------------------------------------
(* Claims about the strategy inside the engine *)

\* in the engine onCandle never returns a signal
EngineNeverSignals == signal = "null"

\* C35: every order-book pressure the engine computes is passed to the
\* strategy by updateOrderBookPressure: the pressure the strategy holds is
\* the one the engine computed last, so that once a pressure has been
\* computed a candle that closes can yield a signal.
C35_PressurePassedToStrategy ==
    indicatorState.orderBookPressure = previousOBPressure

-----------------------------------------------------------------------------
(* The synchronizer fed by a stream of diffs without gaps *)

MaxStreamId == 5

\* the diffs of the stream: ranges U..u of ids, all with the same level
StreamUpdates ==
    { Update(r[1], r[2], <<Level(2, 1)>>, <<>>) :
        r \in {q \in (1..MaxStreamId) \X (1..MaxStreamId) : q[1] <= q[2]} }

StreamSnapshots ==
    { [id |-> i, bids |-> <<Level(2, 2), Level(1, 1)>>, asks |-> <<Level(3, 1)>>] :
        i \in 1..MaxStreamId }

\* the exchange delivers the next diff of the stream: its U is the u of the
\* diff before it, plus one
Deliver(update) ==
    /\ delivered = 0 \/ update.firstUpdateId = delivered + 1
    /\ OB_ProcessUpdate(update)
    /\ delivered' = update.lastUpdateId
    /\ UNCHANGED <<hubVars, sessVars>>

\* the owner calls initialize() when nothing of the manager is in progress
StreamInitialize ==
    /\ syncState = NOT_INITIALIZED
    /\ tasks = NoTasks
    /\ Initialize

\* the snapshot arrives, and one of the cached diffs holds its id + 1
BridgedSnapshot(owner, snapshot) ==
    /\ \E i \in DOMAIN updateCache : InBridge(updateCache[i], snapshot.id)
    /\ InitializeSnapshot(owner, snapshot)

NextStream ==
    \/ StreamInitialize
    \/ ResyncWake
    \/ \E update \in StreamUpdates : Deliver(update)
    \/ \E owner \in Owners, snapshot \in StreamSnapshots :
            BridgedSnapshot(owner, snapshot)

SpecStream == Init /\ [][NextStream]_vars

-----------------------------------------------------------------------------
(* Claims about the stream without gaps *)

\* C36: when the stream of diffs has no gap and the snapshot's id + 1 lies in
\* one of the cached diffs, the synchronizer stays SYNCHRONIZED on every diff
\* that arrives after initialize() has completed: none of them starts a
\* resync, however many cached diffs followed the bridging one.
C36_GapFreeStreamStaysSynchronized ==
    [][\A update \in StreamUpdates :
          (syncState = SYNCHRONIZED /\ Deliver(update)) =>
              /\ syncState' = SYNCHRONIZED
              /\ last'.op \in {"apply", "stale"}]_vars


-----------------------------------------------------------------------------
(* Claims about the interleavings of processUpdate, initialize and resync *)

\* the calls of initialize() that have not returned yet
InitializesInProgress == tasks["call.init"] + tasks["resync.init"]

\* C37: under every interleaving of processUpdate with the awaits of
\* initialize() and resync(), the book is non-null exactly when the state is
\* SYNCHRONIZED, and at most one initialize() is in progress.
C37_BookIffSynchronizedOneInitialize ==
    /\ orderBook.exists <=> syncState = SYNCHRONIZED
    /\ InitializesInProgress <= 1


-----------------------------------------------------------------------------
(* Claims about the stopped session *)

\* C38: whenever the session is STOPPED, no upstream socket is open and no
\* ping interval and no pong timer is active, also after a start() that
\* failed while it connected or while it initialised the order book.
C38_StoppedHasNoSocketNoTimers ==
    state = STOPPED =>
        /\ \A s \in DOMAIN sockets : sockets[s].status /= "open"
        /\ ~pingTimer
        /\ pongTimeout /= "pending"
        /\ stalePongTimers = 0


-----------------------------------------------------------------------------
(* Claims about the reconnects of the running session *)

\* the reconnect attempts that are scheduled (a timer is pending) or in
\* progress (reconnectWebSocket awaits its connection)
ReconnectsPending ==
    reconnectTimers + Cardinality({s \in DOMAIN sockets : sockets[s].awaiter = "reconnect"})

\* the upstream sockets that exist: created and not closed yet
SocketsInExistence == {s \in DOMAIN sockets : sockets[s].status /= "closed"}

\* C39: while RUNNING, at most one reconnect attempt is scheduled or in
\* progress and at most one upstream socket exists, under every interleaving
\* of the error and close events of the sockets with the reconnect timers,
\* also when the connection of a reconnect attempt fails.
C39_OneReconnectOneSocket ==
    state = RUNNING =>
        /\ ReconnectsPending <= 1
        /\ Cardinality(SocketsInExistence) <= 1


\* the socket this.ws holds has closed
UpstreamClosed == ws /= 0 /\ sockets[ws].status = "closed"

\* C40: whenever the session is RUNNING and its upstream socket is closed, a
\* reconnect attempt is eventually made (unless the session is stopped or the
\* process has died by then), also when the socket closed while the session
\* was still STARTING, after the socket had opened.
C40_ClosedSocketIsReconnected ==
    (alive /\ state = RUNNING /\ UpstreamClosed)
        ~> (sessLast = "reconnect" \/ state /= RUNNING \/ ~alive \/ SocketsExhausted)

====
